---- MODULE Spec2Model ----
(***************************************************************************)
(* Star Battle pattern miner: the exact completion enumerator (backtracking *)
(* solver), the window board builder, the pattern verifier, the mining     *)
(* loop around them and the pattern deduplicator.                          *)
(***************************************************************************)
EXTENDS Integers, Sequences, FiniteSets, TLC

VARIABLES
  pc,               \* position of the driver (caller of the library functions)
  buildInput,       \* arguments of the buildWindowBoard call whose result is in use
  baseState,        \* Board returned by buildWindowBoard
  testState,        \* Board returned by applyFixedClues, handed to the solver
  clueInput,        \* arguments of the last applyFixedClues call
  threw,            \* TRUE iff the last board operation raised an error
  maxCompletions,   \* argument of enumerateAllCompletions
  stack,            \* call stack of solve(): frames [cellStates, at]
  completionCount,  \* closure variable completionCount
  cellResults,      \* closure variable cellResults: cell -> set of seen values
  calls,            \* calls of solve made so far by the running enumeration
  recorded,         \* the cellStates arrays recorded as completions so far, in order
  cut,              \* how the running search was cut short: subset of {"cap","timeout"}
  runs,             \* results of the finished enumerateAllCompletions calls
  verification,     \* result of the last verifyPattern call
  allPatterns,      \* patterns accepted by the mining loop
  mining            \* loop state of generatePatternsForFamily

vars == <<pc, buildInput, baseState, testState, clueInput, threw, maxCompletions,
          stack, completionCount, cellResults, calls, recorded,
          cut, runs, verification, allPatterns, mining>>

boardVars == <<buildInput, baseState, testState, clueInput, threw>>

solverVars == <<maxCompletions, stack, calls,
                completionCount, cellResults, recorded, cut>>
minerVars == <<verification, allPatterns, mining>>

-----------------------------------------------------------------------------
(* enum CellState *)
Unknown == 0
Star == 1
Empty == 2
\* what JavaScript yields for cellStates[i] when i is not an index of the array
Undefined == 3

-----------------------------------------------------------------------------
(* Bounds of the model *)
MaxDim == 3          \* window width and height range over 1..MaxDim
\* the smallest window size generateAllPatterns passes; the smallest square
\* board with a completion at one star per unit
MinedWindowDim == 4
MaxQuota == 1        \* starsPerUnit ranges over 0..MaxQuota
MaxCap == 3          \* maxCompletions of a direct call ranges over 0..MaxCap
MaxClues == 1        \* cells per clue list of a direct applyFixedClues call

NoBoard == [size |-> 0]
NoCell == -1

-----------------------------------------------------------------------------
(* Generic helpers *)
Range(s) == {s[k] : k \in 1..Len(s)}

Min(S) == CHOOSE x \in S : \A y \in S : x <= y

RECURSIVE SetToSeq(_)
SetToSeq(S) == IF S = {} THEN <<>>
               ELSE LET m == Min(S) IN <<m>> \o SetToSeq(S \ {m})

Max2(a, b) == IF a >= b THEN a ELSE b

\* Array read: cellStates[i]
CellAt(cellStates, i) ==
  IF i \in DOMAIN cellStates THEN cellStates[i] ELSE Undefined

\* cells.filter(c => cellStates[c] === v).length
CountIn(cells, cellStates, v) ==
  Cardinality({k \in 1..Len(cells) : CellAt(cellStates, cells[k]) = v})

-----------------------------------------------------------------------------
(* boardBuilder: buildWindowBoard and applyFixedClues *)

WindowRows(width, height, starsPerUnit) ==
  [r \in 1..height |->
     [rowIndex |-> r - 1,
      cells |-> [c \in 1..width |-> (r - 1) * width + (c - 1)],
      starsRequired |-> starsPerUnit]]

\* no column groups
WindowCols_none(width, height, starsPerUnit) == <<>>

WindowCols(width, height, starsPerUnit) ==
  [c \in 1..width |->
     [colIndex |-> c - 1,
      cells |-> [r \in 1..height |-> (r - 1) * width + (c - 1)],
      starsRequired |-> starsPerUnit]]

\* the in-window test and the absolute-to-relative translation of one cell
RelRow(absCellId, boardSize, window) == (absCellId \div boardSize) - window.originRow
RelCol(absCellId, boardSize, window) == (absCellId % boardSize) - window.originCol

\* the test on the row only
InWindow_rowOnly(absCellId, boardSize, window) ==
  /\ RelRow(absCellId, boardSize, window) >= 0
  /\ RelRow(absCellId, boardSize, window) < window.height

InWindow(absCellId, boardSize, window) ==
  /\ RelRow(absCellId, boardSize, window) >= 0
  /\ RelRow(absCellId, boardSize, window) < window.height
  /\ RelCol(absCellId, boardSize, window) >= 0
  /\ RelCol(absCellId, boardSize, window) < window.width

WindowCellIds(cellIds, boardSize, window) ==
  LET inside == SelectSeq(cellIds, LAMBDA a : InWindow(a, boardSize, window))
  IN [k \in 1..Len(inside) |->
        RelRow(inside[k], boardSize, window) * window.width
          + RelCol(inside[k], boardSize, window)]

\* the initial value of regionQuota
RegionQuota_perUnit(windowCellIds, window, starsPerUnit) == starsPerUnit

RegionQuota(windowCellIds, window, starsPerUnit) ==
  LET rowsInRegion == {windowCellIds[k] \div window.width : k \in 1..Len(windowCellIds)}
  IN IF Len(windowCellIds) = window.width * window.height
       THEN window.height * starsPerUnit
       ELSE IF Cardinality(rowsInRegion) > 1
              THEN Cardinality(rowsInRegion) * starsPerUnit
              ELSE starsPerUnit

\* regionMap is the sequence of the Map's entries [id, cells] in insertion order
WindowRegions(window, boardSize, starsPerUnit, regionMap) ==
  IF Len(regionMap) > 0
    THEN LET mapped == [k \in 1..Len(regionMap) |->
                          LET wc == WindowCellIds(regionMap[k].cells, boardSize, window)
                          IN [id |-> regionMap[k].id,
                              cells |-> wc,
                              starsRequired |-> RegionQuota(wc, window, starsPerUnit)]]
         IN SelectSeq(mapped, LAMBDA g : Len(g.cells) > 0)
    ELSE << [id |-> 1,
             cells |-> [k \in 1..(window.width * window.height) |-> k - 1],
             starsRequired |-> window.height * starsPerUnit] >>

buildWindowBoard(window, boardSize, starsPerUnit, regionMap) ==
  [size |-> Max2(window.width, window.height),
   starsPerLine |-> starsPerUnit,
   starsPerRegion |-> starsPerUnit,
   cellStates |-> [i \in 0..(window.width * window.height - 1) |-> Unknown],
   regions |-> WindowRegions(window, boardSize, starsPerUnit, regionMap),
   rows |-> WindowRows(window.width, window.height, starsPerUnit),
   cols |-> WindowCols(window.width, window.height, starsPerUnit),
   windowWidth |-> window.width,
   windowHeight |-> window.height]

\* the first loop only
applyFixedClues_starsOnly(state, forcedStars, forcedEmpties) ==
  [state EXCEPT !.cellStates =
     [i \in DOMAIN state.cellStates |->
        IF i \in Range(forcedStars) THEN Star ELSE state.cellStates[i]]]

\* newCellStates after the two loops; a clue outside the array is skipped
applyFixedClues(state, forcedStars, forcedEmpties) ==
  [state EXCEPT !.cellStates =
     [i \in DOMAIN state.cellStates |->
        IF i \in Range(forcedEmpties) THEN Empty
        ELSE IF i \in Range(forcedStars) THEN Star
        ELSE state.cellStates[i]]]

\* the Board passed to applyFixedClues as it is after the call: the loops
\* write into the copy [...state.cellStates] and the result is a new object
applyFixedCluesInput(state, forcedStars, forcedEmpties) == state

\* whether applyFixedClues raises an error for these arguments: it never does
applyFixedCluesThrows(state, forcedStars, forcedEmpties) == FALSE

-----------------------------------------------------------------------------
(* exactSolver: validity of complete and partial states *)

\* the neighbours in the same row or column only
getNeighbors8_noDiagonals(cellId, size) ==
  LET row == cellId \div size
      col == cellId % size
      around == {<<row - 1, col>>, <<row + 1, col>>, <<row, col - 1>>, <<row, col + 1>>}
  IN {[row |-> p[1], col |-> p[2]] :
        p \in {q \in around : q[1] >= 0 /\ q[1] < size /\ q[2] >= 0 /\ q[2] < size}}

getNeighbors8(cellId, size) ==
  LET row == cellId \div size
      col == cellId % size
      around == {<<row + dr, col + dc>> : dr \in {-1, 0, 1}, dc \in {-1, 0, 1}}
                  \ {<<row, col>>}
  IN {[row |-> p[1], col |-> p[2]] :
        p \in {q \in around : q[1] >= 0 /\ q[1] < size /\ q[2] >= 0 /\ q[2] < size}}

\* the adjacency loop shared by isValidCompletion and isValidPartialState
HasAdjacentStars(state) ==
  \E i \in 0..(state.size * state.size - 1) :
    /\ CellAt(state.cellStates, i) = Star
    /\ \E nb \in getNeighbors8(i, state.size) :
         CellAt(state.cellStates, nb.row * state.size + nb.col) = Star

Groups(state) == state.rows \o state.cols \o state.regions

QuotaMet(g, cellStates) == CountIn(g.cells, cellStates, Star) = g.starsRequired

isValidCompletion(state) ==
  /\ \A k \in 1..Len(state.rows) : QuotaMet(state.rows[k], state.cellStates)
  /\ \A k \in 1..Len(state.cols) : QuotaMet(state.cols[k], state.cellStates)
  /\ \A k \in 1..Len(state.regions) : QuotaMet(state.regions[k], state.cellStates)
  /\ ~HasAdjacentStars(state)

\* the second test with <= in place of <
QuotaReachable_offByOne(g, cellStates) ==
  LET starCount == CountIn(g.cells, cellStates, Star)
      emptyCount == CountIn(g.cells, cellStates, Empty)
      remaining == Len(g.cells) - starCount - emptyCount
  IN /\ ~(starCount > g.starsRequired)
     /\ ~(starCount + remaining <= g.starsRequired)

QuotaReachable(g, cellStates) ==
  LET starCount == CountIn(g.cells, cellStates, Star)
      emptyCount == CountIn(g.cells, cellStates, Empty)
      remaining == Len(g.cells) - starCount - emptyCount
  IN /\ ~(starCount > g.starsRequired)
     /\ ~(starCount + remaining < g.starsRequired)

isValidPartialState(state) ==
  /\ \A k \in 1..Len(state.rows) : QuotaReachable(state.rows[k], state.cellStates)
  /\ \A k \in 1..Len(state.cols) : QuotaReachable(state.cols[k], state.cellStates)
  /\ \A k \in 1..Len(state.regions) : QuotaReachable(state.regions[k], state.cellStates)
  /\ ~HasAdjacentStars(state)

\* the copy without the assignment
cloneStateWithCell_unset(state, cellId, value) == state

cloneStateWithCell(state, cellId, value) ==
  [state EXCEPT !.cellStates[cellId] = value]

\* the loop running from the last cell down
NextUnknownCell_highest(state) ==
  LET unknown == {i \in 0..(state.size * state.size - 1) :
                    CellAt(state.cellStates, i) = Unknown}
  IN IF unknown = {} THEN NoCell ELSE CHOOSE i \in unknown : \A j \in unknown : j <= i

\* the "find next unknown cell" loop of solve
NextUnknownCell(state) ==
  LET unknown == {i \in 0..(state.size * state.size - 1) :
                    CellAt(state.cellStates, i) = Unknown}
  IN IF unknown = {} THEN NoCell ELSE Min(unknown)

\* a counter that keeps its value from the previous call
InitCompletionCount_stale == completionCount

\* "let completionCount = 0" at the start of every call
InitCompletionCount == 0

InitCellResults(size) == [i \in 0..(size * size - 1) |-> {}]

\* cellResults.get(i).add(currentState.cellStates[i]) for every i
RecordCompletion(results, state) ==
  [i \in DOMAIN results |-> results[i] \cup {CellAt(state.cellStates, i)}]

\* a classification that takes "no star seen" for alwaysEmpty
Classify_noStarIsEmpty(states) ==
  IF Star \in states /\ ~(Empty \in states) THEN "alwaysStar"
  ELSE IF ~(Star \in states) THEN "alwaysEmpty"
  ELSE "variable"

\* the per-cell branch of the "Analyze results" loop
Classify(states) ==
  IF Cardinality(states) = 0 THEN "variable"
  ELSE IF Cardinality(states) = 1
    THEN (IF states = {Star} THEN "alwaysStar" ELSE "alwaysEmpty")
    ELSE IF Star \in states /\ ~(Empty \in states) THEN "alwaysStar"
    ELSE IF Empty \in states /\ ~(Star \in states) THEN "alwaysEmpty"
    ELSE "variable"

Analyze(results, count) ==
  [cellResults |-> [i \in DOMAIN results |-> Classify(results[i])],
   totalCompletions |-> count]

\* the test with > in place of >=
CapReached_strict(count, K) == count > K

\* "if (completionCount >= maxCompletions) return"
CapReached(count, K) == count >= K

\* no deadline: the wall clock does not pass timeoutMs during the call
NoDeadline == -1

\* "if (Date.now() - startTime > timeoutMs) return", where the clock passes
\* timeoutMs after `deadline` calls of solve have been entered
TimedOut(entered, deadline) == deadline # NoDeadline /\ entered >= deadline

(* The recursive function solve as a machine with an explicit call stack.
   A search m holds the call stack (one frame per pending call: the
   cellStates of its state argument and the point the call has reached), the
   closure variables completionCount and cellResults, the number of calls
   entered so far, the cellStates arrays recorded so far and how the search
   has been cut short. *)
\* the search starting from an array of Unknown cells
NewSearch_blank(state) ==
  [stack |-> << [cellStates |-> [i \in DOMAIN state.cellStates |-> Unknown],
                 at |-> "entry"] >>,
   completionCount |-> InitCompletionCount,
   cellResults |-> InitCellResults(state.size),
   calls |-> 0,
   recorded |-> <<>>,
   cut |-> {}]

NewSearch(state) ==
  [stack |-> << [cellStates |-> state.cellStates, at |-> "entry"] >>,
   completionCount |-> InitCompletionCount,
   cellResults |-> InitCellResults(state.size),
   calls |-> 0,
   recorded |-> <<>>,
   cut |-> {}]

TopFrame(m) == m.stack[Len(m.stack)]
Popped(m) == SubSeq(m.stack, 1, Len(m.stack) - 1)
FrameState(board, m) == [board EXCEPT !.cellStates = TopFrame(m).cellStates]
AtEntry(m) == m.stack # <<>> /\ TopFrame(m).at = "entry"

\* "if (Date.now() - startTime > timeoutMs) return": the call that meets the
\* test returns. The elapsed time only grows, so the test succeeds again at
\* the entry of every later call; the pending calls go on with their
\* branches and each call they enter returns here.
StepTimeout(m) ==
  [m EXCEPT !.calls = @ + 1, !.cut = @ \cup {"timeout"}, !.stack = Popped(m)]

\* "if (completionCount >= maxCompletions) return"
StepCapReached(m) ==
  [m EXCEPT !.calls = @ + 1, !.cut = @ \cup {"cap"}, !.stack = Popped(m)]

\* no unknown cell is left: record the state if it is a valid completion
StepLeaf(board, m) ==
  IF isValidCompletion(FrameState(board, m))
    THEN [m EXCEPT !.calls = @ + 1,
                   !.completionCount = @ + 1,
                   !.cellResults = RecordCompletion(@, FrameState(board, m)),
                   !.recorded = Append(@, TopFrame(m).cellStates),
                   !.stack = Popped(m)]
    ELSE [m EXCEPT !.calls = @ + 1, !.stack = Popped(m)]

\* the value written into the caller's array instead of a copy
TryBranch_shared(board, m, v, after) ==
  LET nextCell == NextUnknownCell(FrameState(board, m))
      child == cloneStateWithCell(FrameState(board, m), nextCell, v)
      waiting == [m.stack EXCEPT ![Len(m.stack)].at = after,
                                 ![Len(m.stack)].cellStates = child.cellStates]
  IN IF isValidPartialState(child)
       THEN Append(waiting, [cellStates |-> child.cellStates, at |-> "entry"])
       ELSE waiting

\* the top frame tries value v for its next unknown cell and recurses when
\* the cloned state is a valid partial state
TryBranch(board, m, v, after) ==
  LET waiting == [m.stack EXCEPT ![Len(m.stack)].at = after]
      Recurse(child) ==
        IF isValidPartialState(child)
          THEN Append(waiting, [cellStates |-> child.cellStates, at |-> "entry"])
          ELSE waiting
  IN CHOOSE after_call \in
       {Recurse(child) :
          child \in {cloneStateWithCell(FrameState(board, m),
                                        NextUnknownCell(FrameState(board, m)), v)}} : TRUE

\* "Try placing star"
StepTryStar(board, m) ==
  [m EXCEPT !.calls = @ + 1, !.stack = TryBranch(board, m, Star, "afterStar")]

\* the call goes on without trying Empty
StepTryEmpty_skipped(board, m) ==
  [m EXCEPT !.stack = [m.stack EXCEPT ![Len(m.stack)].at = "afterEmpty"]]

\* "Try placing empty"
StepTryEmpty(board, m) ==
  [m EXCEPT !.stack = TryBranch(board, m, Empty, "afterEmpty")]

\* the call returns after both branches
StepReturn(m) == [m EXCEPT !.stack = Popped(m)]

\* one step of the search, with the clock passing timeoutMs at `deadline`
SolveStep(board, K, deadline, m) ==
  IF TopFrame(m).at = "entry"
    THEN IF TimedOut(m.calls, deadline) THEN StepTimeout(m)
         ELSE IF CapReached(m.completionCount, K) THEN StepCapReached(m)
         ELSE IF NextUnknownCell(FrameState(board, m)) = NoCell THEN StepLeaf(board, m)
         ELSE StepTryStar(board, m)
  ELSE IF TopFrame(m).at = "afterStar" THEN StepTryEmpty(board, m)
  ELSE StepReturn(m)

\* A call in progress: the arguments of enumerateAllCompletions and its
\* search. RunSolve gives the call after at most 2^k further steps, or when
\* solve(state, 0) has returned if that comes first.
\* r after one step of its search. r.marks collects the numbers of calls
\* entered when a step has changed what a timeout at the next call returns:
\* the recorded completions or the way the search has been cut.
Stepped(r, after) ==
  [r EXCEPT !.m = after,
            !.marks = IF after.completionCount # r.m.completionCount \/ after.cut # r.m.cut
                        THEN @ \cup {after.calls} ELSE @]

RunStep(r) == Stepped(r, SolveStep(r.board, r.K, r.deadline, r.m))

RECURSIVE RunSolve(_, _)
RunSolve(r, k) ==
  IF r.m.stack = <<>> THEN r
  ELSE IF k = 0 THEN RunStep(r)
  ELSE RunSolve(RunSolve(r, k - 1), k - 1)

\* the call when solve(state, 0) has returned
RECURSIVE RunToEnd(_, _)
RunToEnd(r, k) == IF r.m.stack = <<>> THEN r ELSE RunToEnd(RunSolve(r, k), k + 1)

\* enumerateAllCompletions(state, maxCompletions, timeoutMs) as a whole
Returned(end) ==
  [analysis |-> Analyze(end.m.cellResults, end.m.completionCount),
   cut |-> end.m.cut, calls |-> end.m.calls, marks |-> end.marks]

enumerateAllCompletions(state, K, deadline) ==
  Returned(RunToEnd([board |-> state, K |-> K, deadline |-> deadline,
                     m |-> NewSearch(state), marks |-> {0}], 0))

-----------------------------------------------------------------------------
(* Inputs of the direct calls (a test script calling the library) *)

Windows ==
  {[width |-> w, height |-> h, originRow |-> o, originCol |-> o] :
     w \in 1..MaxDim, h \in 1..MaxDim, o \in {0, 1}}
    \cup {[width |-> MinedWindowDim, height |-> MinedWindowDim,
           originRow |-> o, originCol |-> o] : o \in {0, 1}}

\* the nominal board is just large enough to hold the window at its origin
BoardSizeFor(window) == Max2(window.width, window.height) + window.originRow

\* one region per window row, cells given in absolute coordinates
AbsRowRegions(window, boardSize) ==
  [r \in 1..window.height |->
     [id |-> r,
      cells |-> [c \in 1..window.width |->
                   (window.originRow + r - 1) * boardSize + window.originCol + c - 1]]]

\* a band of the two top board rows and a band of the remaining board rows;
\* both reach outside the window when the window is narrower than the board
AbsBandRegions(window, boardSize) ==
  << [id |-> 7, cells |-> [k \in 1..(2 * boardSize) |-> k - 1]],
     [id |-> 3, cells |-> [k \in 1..((boardSize - 2) * boardSize) |->
                             2 * boardSize + k - 1]] >>

RegionMaps(window, boardSize) ==
  {<<>>, AbsRowRegions(window, boardSize)}
    \cup (IF boardSize >= 2 THEN {AbsBandRegions(window, boardSize)} ELSE {})

\* cells a direct caller may name in a clue list: the second cell of the top
\* row and the first index past the array
ClueCells(state) ==
  {1, state.windowWidth * state.windowHeight}

ClueLists(state) ==
  {SetToSeq(S) : S \in {T \in SUBSET ClueCells(state) : Cardinality(T) <= MaxClues}}

-----------------------------------------------------------------------------
(* patternVerifier: verifyPattern, after its call of enumerateAllCompletions *)

VerifierCap == 1000

\* the loop over the window cells starting at 1 in place of 0
ForcedCells_fromOne(state, window, analysis, kind) ==
  LET windowSize == window.width * window.height
      n == IF windowSize < Cardinality(DOMAIN state.cellStates)
             THEN windowSize ELSE Cardinality(DOMAIN state.cellStates)
  IN SetToSeq({i \in 1..(n - 1) : analysis.cellResults[i] = kind})

\* the window cells, in ascending order, that the analysis classifies as kind
ForcedCells(state, window, analysis, kind) ==
  LET windowSize == window.width * window.height
      n == IF windowSize < Cardinality(DOMAIN state.cellStates)
             THEN windowSize ELSE Cardinality(DOMAIN state.cellStates)
  IN SetToSeq({i \in 0..(n - 1) : analysis.cellResults[i] = kind})

verifyPattern(state, window, analysis) ==
  IF analysis.totalCompletions = 0
    THEN [verified |-> FALSE, actualDeductions |-> <<>>]
    ELSE LET forceStarCells == ForcedCells(state, window, analysis, "alwaysStar")
             forceEmptyCells == ForcedCells(state, window, analysis, "alwaysEmpty")
             actualDeductions ==
               (IF Len(forceStarCells) > 0
                  THEN << [type |-> "forceStar", relativeCellIds |-> forceStarCells] >>
                  ELSE <<>>)
               \o (IF Len(forceEmptyCells) > 0
                     THEN << [type |-> "forceEmpty", relativeCellIds |-> forceEmptyCells] >>
                     ELSE <<>>)
         IN [verified |-> Len(actualDeductions) > 0, actualDeductions |-> actualDeductions]

-----------------------------------------------------------------------------
(* windowEnumerator *)

\* the loops with "<" for "<="
enumerateWindows_exclusive(boardSize, windowWidth, windowHeight) ==
  LET nr == IF boardSize - windowHeight > 0 THEN boardSize - windowHeight ELSE 0
      nc == IF boardSize - windowWidth > 0 THEN boardSize - windowWidth ELSE 0
  IN [k \in 1..(nr * nc) |->
        [width |-> windowWidth, height |-> windowHeight,
         originRow |-> (k - 1) \div nc, originCol |-> (k - 1) % nc]]

enumerateWindows(boardSize, windowWidth, windowHeight) ==
  LET nr == IF boardSize - windowHeight >= 0 THEN boardSize - windowHeight + 1 ELSE 0
      nc == IF boardSize - windowWidth >= 0 THEN boardSize - windowWidth + 1 ELSE 0
  IN [k \in 1..(nr * nc) |->
        [width |-> windowWidth, height |-> windowHeight,
         originRow |-> (k - 1) \div nc, originCol |-> (k - 1) % nc]]

\* numeric ascending sort: [...a].sort((a, b) => a - b)
RECURSIVE InsertNum(_, _)
InsertNum(x, sorted) ==
  IF sorted = <<>> THEN <<x>>
  ELSE IF x < Head(sorted) THEN <<x>> \o sorted
  ELSE <<Head(sorted)>> \o InsertNum(x, Tail(sorted))

RECURSIVE SortNum(_)
SortNum(a) == IF a = <<>> THEN <<>> ELSE InsertNum(a[Len(a)], SortNum(SubSeq(a, 1, Len(a) - 1)))

canonicalizePattern(pattern) ==
  [pattern EXCEPT !.deductions =
     [k \in 1..Len(pattern.deductions) |->
        [pattern.deductions[k] EXCEPT !.relativeCellIds = SortNum(@)]]]

-----------------------------------------------------------------------------
(* Family identifiers are strings; a string is modelled as its sequence of
   characters so that String.prototype.includes can be computed. *)

Includes(str, sub) ==
  \E i \in 0..(Len(str) - Len(sub)) : SubSeq(str, i + 1, i + Len(sub)) = sub

D1_rowColIntersection ==
  <<"D","1","_","r","o","w","C","o","l","I","n","t","e","r","s","e","c","t","i","o","n">>
\* an identifier no case of testSchemaPreconditions matches
F9_other == <<"F","9","_","o","t","h","e","r">>



IsE1Like(familyId) ==
  Includes(familyId, <<"E","1">>)
    \/ Includes(familyId, <<"c","a","n","d","i","d","a","t","e","D","e","f","i","c","i","t">>)
IsC1Like(familyId) ==
  Includes(familyId, <<"C","1">>)
    \/ Includes(familyId, <<"e","x","a","c","t","C","a","g","e","s">>)
IsD1Like(familyId) ==
  Includes(familyId, <<"D","1">>)
    \/ Includes(familyId, <<"r","o","w","C","o","l","I","n","t","e","r","s","e","c","t","i","o","n">>)
IsA1Like(familyId) ==
  Includes(familyId, <<"r","o","w","B","a","n","d">>) \/ Includes(familyId, <<"A","1">>)

-----------------------------------------------------------------------------
(* schemaTesters *)

\* the first (row, col) pair, rows outermost, whose intersection has an
\* Unknown cell
testD1Preconditions(state, window) ==
  LET hits == {<<r, c>> \in (1..Len(state.rows)) \X (1..Len(state.cols)) :
                 \E x \in Range(state.rows[r].cells) \cap Range(state.cols[c].cells) :
                   CellAt(state.cellStates, x) = Unknown}
  IN IF Len(state.rows) = 0 \/ Len(state.cols) = 0 \/ hits = {}
       THEN [holds |-> FALSE]
       ELSE LET r == Min({h[1] : h \in hits})
                c == Min({h[2] : h \in {g \in hits : g[1] = r}})
            IN [holds |-> TRUE,
                data |-> [row |-> state.rows[r].rowIndex,
                          col |-> state.cols[c].colIndex,
                          intersection |->
                            SelectSeq(SelectSeq(state.rows[r].cells,
                                                LAMBDA x : x \in Range(state.cols[c].cells)),
                                      LAMBDA x : CellAt(state.cellStates, x) = Unknown)]]

\* the test of one group in testE1Preconditions
\* with "candidateCount >= remaining"
CandidateDeficit_atLeast(group, cellStates) ==
  LET starCount == CountIn(group.cells, cellStates, Star)
      candidateCount == CountIn(group.cells, cellStates, Unknown)
      remaining == group.starsRequired - starCount
  IN remaining > 0 /\ candidateCount >= remaining

\* "remaining > 0 && candidateCount === remaining" for one row, column or region
CandidateDeficit(group, cellStates) ==
  LET starCount == CountIn(group.cells, cellStates, Star)
      candidateCount == CountIn(group.cells, cellStates, Unknown)
      remaining == group.starsRequired - starCount
  IN remaining > 0 /\ candidateCount = remaining

E1Data(kind, id, group, cellStates) ==
  [group_type |-> kind, group_id |-> id,
   candidates |-> SelectSeq(group.cells, LAMBDA c : CellAt(cellStates, c) = Unknown)]

\* the three loops: rows, then columns, then regions, each in list order
testE1Preconditions(state, window) ==
  LET rowHits == {k \in 1..Len(state.rows) : CandidateDeficit(state.rows[k], state.cellStates)}
      colHits == {k \in 1..Len(state.cols) : CandidateDeficit(state.cols[k], state.cellStates)}
      regionHits == {k \in 1..Len(state.regions) :
                       CandidateDeficit(state.regions[k], state.cellStates)}
  IN IF rowHits # {}
       THEN LET g == state.rows[Min(rowHits)]
            IN [holds |-> TRUE, data |-> E1Data("row", g.rowIndex, g, state.cellStates)]
     ELSE IF colHits # {}
       THEN LET g == state.cols[Min(colHits)]
            IN [holds |-> TRUE, data |-> E1Data("column", g.colIndex, g, state.cellStates)]
     ELSE IF regionHits # {}
       THEN LET g == state.regions[Min(regionHits)]
            IN [holds |-> TRUE, data |-> E1Data("region", g.id, g, state.cellStates)]
     ELSE [holds |-> FALSE]

\* "{}": an object without properties
EmptyObject == <<>>

\* "{ ...a, ...b }": the properties of a, then those of b over them
Spread(a, b) ==
  [f \in DOMAIN a \cup DOMAIN b |-> IF f \in DOMAIN b THEN b[f] ELSE a[f]]

\* "data?.f" is neither undefined nor falsy-by-absence
Has(data, f) == f \in DOMAIN data

\* the band taken without its last row
regionFullyInsideRows_shortBand(region, rows, windowHeight, width) ==
  \A k \in 1..Len(region.cells) :
    (region.cells[k] \div width) \in Range(rows) \ {windowHeight - 1}

regionFullyInsideRows(region, rows, windowHeight, width) ==
  \A k \in 1..Len(region.cells) : (region.cells[k] \div width) \in Range(rows)

getRegionsIntersectingRows(state, rows, width) ==
  SelectSeq(state.regions,
            LAMBDA g : \E k \in 1..Len(g.cells) : (g.cells[k] \div width) \in Range(rows))

getCandidatesInRegionAndRows(region, rows, state, width) ==
  SelectSeq(region.cells,
            LAMBDA c : (c \div width) \in Range(rows) /\ CellAt(state.cellStates, c) = Unknown)

RegionIds(regions) == [k \in 1..Len(regions) |-> regions[k].id]

testA1Preconditions(state, window) ==
  LET rows == [i \in 1..window.height |-> i - 1]
      regions == getRegionsIntersectingRows(state, rows, window.width)
      fullInside == SelectSeq(regions, LAMBDA g :
                      regionFullyInsideRows(g, rows, window.height, window.width))
      partial == SelectSeq(regions, LAMBDA g :
                   ~regionFullyInsideRows(g, rows, window.height, window.width))
      hasCandidates == \E k \in 1..Len(partial) :
                         Len(getCandidatesInRegionAndRows(partial[k], rows, state,
                                                          window.width)) > 0
  IN IF \/ window.height < 2
        \/ Len(state.regions) < 2
        \/ Len(regions) < 2
        \/ Len(fullInside) = 0 \/ Len(partial) = 0
        \/ ~hasCandidates
       THEN [holds |-> FALSE]
       ELSE [holds |-> TRUE,
             data |-> [row_band |-> rows,
                       full_inside_regions |-> RegionIds(fullInside),
                       partial_regions |-> RegionIds(partial),
                       regions |-> RegionIds(regions)]]

\* the column band 0..width-1 handed to the row helper ("simplified check")
testA2Preconditions(state, window) ==
  LET cols == [i \in 1..window.width |-> i - 1]
      regions == getRegionsIntersectingRows(state, cols, window.width)
  IN IF \/ window.width < 2
        \/ Len(state.regions) < 2
        \/ Len(regions) < 2
       THEN [holds |-> FALSE]
       ELSE [holds |-> TRUE,
             data |-> [col_band |-> cols, regions |-> RegionIds(regions)]]

\* the row loop running up to the last row
countValidBlocks_lastRow(state, window) ==
  Cardinality({<<r, c>> \in (0..(window.height - 1)) \X (0..(window.width - 2)) :
                 \E x \in {r * window.width + c, r * window.width + (c + 1),
                           (r + 1) * window.width + c, (r + 1) * window.width + (c + 1)} :
                   CellAt(state.cellStates, x) = Unknown})

\* the 2x2 blocks of the window with at least one Unknown cell
countValidBlocks(state, window) ==
  Cardinality({<<r, c>> \in (0..(window.height - 2)) \X (0..(window.width - 2)) :
                 \E x \in {r * window.width + c, r * window.width + (c + 1),
                           (r + 1) * window.width + c, (r + 1) * window.width + (c + 1)} :
                   CellAt(state.cellStates, x) = Unknown})

\* "starsNeeded - existingStars", the stars counted over the cells
\* i < width * height that the array has
RemainingStars(state, window) ==
  window.height * state.starsPerLine
    - Cardinality({i \in 0..(window.width * window.height - 1) :
                     i \in DOMAIN state.cellStates /\ state.cellStates[i] = Star})

testC2Preconditions(state, window) ==
  LET validBlocks == countValidBlocks(state, window)
      remainingStars == RemainingStars(state, window)
  IN IF \/ window.width < 2 \/ window.height < 2
        \/ Len(state.regions) = 0
        \/ validBlocks # remainingStars \/ validBlocks = 0
       THEN [holds |-> FALSE]
       ELSE [holds |-> TRUE,
             data |-> [valid_blocks |-> validBlocks, remaining_stars |-> remainingStars,
                       regions |-> RegionIds(state.regions)]]

testC1Preconditions(state, window) ==
  LET validBlocks == countValidBlocks(state, window)
      remainingStars == RemainingStars(state, window)
  IN IF \/ window.width < 2 \/ window.height < 2
        \/ validBlocks # remainingStars \/ validBlocks = 0
       THEN [holds |-> FALSE]
       ELSE [holds |-> TRUE,
             data |-> [valid_blocks |-> validBlocks, remaining_stars |-> remainingStars]]

A1_rowBand_regionBudget ==
  <<"A","1","_","r","o","w","B","a","n","d","_","r","e","g","i","o","n","B","u","d","g","e","t">>
C1_bandExactCages ==
  <<"C","1","_","b","a","n","d","E","x","a","c","t","C","a","g","e","s">>
C2_cages_regionQuota ==
  <<"C","2","_","c","a","g","e","s","_","r","e","g","i","o","n","Q","u","o","t","a">>
E1_candidateDeficit ==
  <<"E","1","_","c","a","n","d","i","d","a","t","e","D","e","f","i","c","i","t">>
A2_colBand_regionBudget ==
  <<"A","2","_","c","o","l","B","a","n","d","_","r","e","g","i","o","n","B","u","d","g","e","t">>
C1_band_exactCages ==
  <<"C","1","_","b","a","n","d","_","e","x","a","c","t","C","a","g","e","s">>

\* the families mined by the direct callers of generatePatternsForFamily
Families == {D1_rowColIntersection, E1_candidateDeficit, F9_other}

\* the switch on the exact family id
testSchemaPreconditions(familyId, state, window) ==
  IF familyId = A1_rowBand_regionBudget THEN testA1Preconditions(state, window)
  ELSE IF familyId = A2_colBand_regionBudget THEN testA2Preconditions(state, window)
  ELSE IF familyId = C1_bandExactCages \/ familyId = C1_band_exactCages
    THEN testC1Preconditions(state, window)
  ELSE IF familyId = C2_cages_regionQuota THEN testC2Preconditions(state, window)
  ELSE IF familyId = E1_candidateDeficit THEN testE1Preconditions(state, window)
  ELSE IF familyId = D1_rowColIntersection THEN testD1Preconditions(state, window)
  ELSE [holds |-> Len(state.regions) > 0, data |-> EmptyObject]

-----------------------------------------------------------------------------
(* patternGenerator *)

SolvabilityCap == 1
PatternsPerSizeCap == 10

RowStructure(width, height) ==
  [r \in 1..height |->
     [id |-> r, cells |-> [c \in 1..width |-> (r - 1) * width + (c - 1)]]]

\* 2x2 block-aligned regions, row-major, ids from 1
BlockStructure(width, height) ==
  [k \in 1..((height \div 2) * (width \div 2)) |->
     LET r == 2 * ((k - 1) \div (width \div 2))
         c == 2 * ((k - 1) % (width \div 2))
     IN [id |-> k,
         cells |-> << r * width + c, r * width + c + 1,
                      (r + 1) * width + c, (r + 1) * width + c + 1 >>]]

\* regions of two rows (cells interleaved column by column) and a last single
\* row when the height is odd
TwoRowStructure(width, height) ==
  [k \in 1..((height + 1) \div 2) |->
     LET r == 2 * (k - 1)
     IN [id |-> k,
         cells |-> IF r + 1 < height
                     THEN [j \in 1..(2 * width) |->
                             (r + ((j - 1) % 2)) * width + ((j - 1) \div 2)]
                     ELSE [j \in 1..width |-> r * width + (j - 1)]]]

RowsFrom(first, last, width) ==
  IF last < first THEN <<>>
  ELSE [j \in 1..((last - first + 1) * width) |-> first * width + (j - 1)]

MixedStructure(width, height) ==
  << [id |-> 1, cells |-> RowsFrom(0, (IF height < 2 THEN height ELSE 2) - 1, width)],
     [id |-> 2, cells |-> RowsFrom(1, height - 1, width)] >>
  \o (IF height >= 3 THEN << [id |-> 3, cells |-> RowsFrom(2, height - 1, width)] >>
      ELSE <<>>)

generateRegionStructures(width, height, familyId) ==
  IF IsE1Like(familyId) THEN << RowStructure(width, height) >>
  ELSE IF IsC1Like(familyId) THEN
    << RowStructure(width, height) >>
    \o (IF width >= 4 /\ height >= 4 /\ width % 2 = 0 /\ height % 2 = 0
          THEN << BlockStructure(width, height) >> ELSE <<>>)
  ELSE IF IsD1Like(familyId) THEN << RowStructure(width, height) >>
  ELSE IF IsA1Like(familyId) THEN
    << RowStructure(width, height), TwoRowStructure(width, height),
       MixedStructure(width, height) >>
  ELSE << RowStructure(width, height) >>

\* "for (let dr = 0; dr < 2 && r + dr < height; dr++)": 2x2 blocks cut at the
\* edge of the window, row-major, ids from 1
ClippedBlockStructure(width, height) ==
  [k \in 1..(((height + 1) \div 2) * ((width + 1) \div 2)) |->
     LET r == 2 * ((k - 1) \div ((width + 1) \div 2))
         c == 2 * ((k - 1) % ((width + 1) \div 2))
         inside == SelectSeq(<< <<0, 0>>, <<0, 1>>, <<1, 0>>, <<1, 1>> >>,
                             LAMBDA d : r + d[1] < height /\ c + d[2] < width)
     IN [id |-> k,
         cells |-> [j \in 1..Len(inside) |->
                      (r + inside[j][1]) * width + c + inside[j][2]]]]

\* generateRegionStructures of the compiled module: the C1 branch has the one
\* structure of clipped blocks, the other branches are those of the source
CompiledRegionStructures(width, height, familyId) ==
  IF IsE1Like(familyId) THEN << RowStructure(width, height) >>
  ELSE IF IsC1Like(familyId) THEN << ClippedBlockStructure(width, height) >>
  ELSE IF IsD1Like(familyId) THEN << RowStructure(width, height) >>
  ELSE IF IsA1Like(familyId) THEN
    << RowStructure(width, height), TwoRowStructure(width, height),
       MixedStructure(width, height) >>
  ELSE << RowStructure(width, height) >>

\* the cells around (row, col) inside the window, in the order of the dr, dc loops
NeighborCells(row, col, width, height) ==
  LET offsets == << <<-1,-1>>, <<-1,0>>, <<-1,1>>, <<0,-1>>, <<0,1>>,
                    <<1,-1>>, <<1,0>>, <<1,1>> >>
      inside == SelectSeq(offsets, LAMBDA o :
                  /\ row + o[1] >= 0 /\ row + o[1] < height
                  /\ col + o[2] >= 0 /\ col + o[2] < width
                  /\ (row + o[1]) * width + (col + o[2]) < width * height)
  IN [k \in 1..Len(inside) |-> (row + inside[k][1]) * width + (col + inside[k][2])]

EmptyConfig == [forcedStars |-> <<>>, forcedEmpties |-> <<>>]

\* "[...new Set(list)]": the first occurrence of each element, in order
UniqueInOrder(list) ==
  LET keep == {k \in 1..Len(list) : \A j \in 1..(k - 1) : list[j] # list[k]}
  IN [i \in 1..Cardinality(keep) |->
        list[CHOOSE k \in keep : Cardinality({j \in keep : j < k}) = i - 1]]

RECURSIVE ConcatAll(_)
ConcatAll(lists) == IF lists = <<>> THEN <<>> ELSE lists[1] \o ConcatAll(Tail(lists))

\* The neighbours pushed for the stars of a list, star after star, under
\* "!forcedStars.includes(neighborId)": forcedStars is either the whole list
\* (built before the loop) or the stars pushed so far.
StarNeighbors(stars, width, height, whole) ==
  ConcatAll([k \in 1..Len(stars) |->
    SelectSeq(NeighborCells(stars[k] \div width, stars[k] % width, width, height),
              LAMBDA x : ~(x \in Range(SubSeq(stars, 1, IF whole THEN Len(stars) ELSE k))))])

\* the E1 branch: the first row with more candidates than its quota > 0 gets
\* stars on its first candidates until as many candidates as the quota are left
E1Configurations(state, width, height) ==
  LET Candidates(k) ==
        SelectSeq(state.rows[k].cells, LAMBDA c : CellAt(state.cellStates, c) = Unknown)
      StarsToPlace(k) == Len(Candidates(k)) - state.rows[k].starsRequired
      usable == {k \in 1..Len(state.rows) :
                   /\ Len(Candidates(k)) > state.rows[k].starsRequired
                   /\ StarsToPlace(k) > 0 /\ StarsToPlace(k) < Len(Candidates(k))}
  IN << EmptyConfig >>
     \o (IF usable = {} THEN <<>>
         ELSE LET forcedStars == SubSeq(Candidates(Min(usable)), 1, StarsToPlace(Min(usable)))
              IN << [forcedStars |-> forcedStars,
                     forcedEmpties |->
                       UniqueInOrder(StarNeighbors(forcedStars, width, height, TRUE))] >>)

\* the C1 branch: stars on every other cell of every other row, row-major,
\* until remaining_stars are placed
C1Configurations(width, height, preconditionData) ==
  LET totalCells == width * height
      starsToPlace == IF Has(preconditionData, "remaining_stars")
                        THEN preconditionData.remaining_stars ELSE 0
      perRow == width \div 2
      spots == [j \in 1..((height \div 2) * perRow) |->
                  2 * ((j - 1) \div perRow) * width + 2 * ((j - 1) % perRow)]
      forcedStars == SubSeq(spots, 1, IF starsToPlace < Len(spots) THEN starsToPlace
                                      ELSE Len(spots))
  IN << EmptyConfig >>
     \o (IF /\ Has(preconditionData, "valid_blocks")
            /\ preconditionData.valid_blocks > 0
            /\ starsToPlace > 0 /\ starsToPlace < totalCells
            /\ Len(forcedStars) > 0
           THEN << [forcedStars |-> forcedStars,
                    forcedEmpties |->
                      UniqueInOrder(StarNeighbors(forcedStars, width, height, FALSE))] >>
           ELSE <<>>)

\* "state.regions.find(r => r.id === id)" as a list of at most one region
FindRegion(state, id) ==
  LET found == SelectSeq(state.regions, LAMBDA g : g.id = id)
  IN IF found = <<>> THEN <<>> ELSE << found[1] >>

\* the A1 branch: a star on the first cell of the first fully-inside region,
\* then stars on the first cells of the first two fully-inside regions
A1Configurations(state, width, height, preconditionData) ==
  LET totalCells == width * height
      full == IF Has(preconditionData, "full_inside_regions")
                THEN preconditionData.full_inside_regions ELSE <<>>
      StarCells(ids) ==
        ConcatAll([i \in 1..Len(ids) |->
          LET region == FindRegion(state, ids[i])
          IN IF region # <<>> /\ Len(region[1].cells) > 0
                  /\ region[1].cells[1] < totalCells
               THEN << region[1].cells[1] >> ELSE <<>>])
      one == StarCells(SubSeq(full, 1, 1))
      two == StarCells(SubSeq(full, 1, 2))
  IN << EmptyConfig >>
     \o (IF Len(full) > 0 /\ one # <<>>
           THEN << [forcedStars |-> one,
                    forcedEmpties |-> NeighborCells(one[1] \div width, one[1] % width,
                                                    width, height)] >>
           ELSE <<>>)
     \o (IF Len(full) >= 2 /\ two # <<>>
           THEN << [forcedStars |-> two,
                    forcedEmpties |->
                      UniqueInOrder(StarNeighbors(two, width, height, FALSE))] >>
           ELSE <<>>)

\* the D1 branch
D1Configurations(width, height, preconditionData) ==
  << EmptyConfig >>
  \o (IF Has(preconditionData, "row") /\ Has(preconditionData, "col")
           /\ preconditionData.row * width + preconditionData.col < width * height
        THEN << [forcedStars |-> << preconditionData.row * width + preconditionData.col >>,
                 forcedEmpties |-> NeighborCells(preconditionData.row, preconditionData.col,
                                                 width, height)] >>
        ELSE <<>>)

\* the final else branch ("Generic configurations")
GenericConfigurations(width, height) ==
  LET totalCells == width * height
      starCell == totalCells \div 2
  IN << EmptyConfig >>
     \o (IF totalCells > 0 THEN << [forcedStars |-> <<0>>, forcedEmpties |-> <<>>] >> ELSE <<>>)
     \o (IF totalCells > 4
           THEN << [forcedStars |-> <<starCell>>,
                    forcedEmpties |-> NeighborCells(starCell \div width, starCell % width,
                                                    width, height)] >>
           ELSE <<>>)

\* generateTestConfigurations(state, window, width, height) of the second
\* definition of the mining loop in patternGenerator.ts: the same four
\* configurations for every family
EarlierConfigurations(width, height) ==
  LET totalCells == width * height
      starCell == totalCells \div 2
  IN << EmptyConfig >>
     \o (IF totalCells > 0 THEN << [forcedStars |-> <<0>>, forcedEmpties |-> <<>>] >> ELSE <<>>)
     \o (IF totalCells > 2
           THEN << [forcedStars |-> <<0, Min({2, totalCells - 1})>>, forcedEmpties |-> <<>>] >>
           ELSE <<>>)
     \o (IF totalCells > 4
           THEN << [forcedStars |-> <<starCell>>,
                    forcedEmpties |-> NeighborCells(starCell \div width, starCell % width,
                                                    width, height)] >>
           ELSE <<>>)

\* the chain of "familyId.includes(...)" tests
generateTestConfigurations(state, window, width, height, familyId, preconditionData) ==
  IF IsE1Like(familyId) THEN E1Configurations(state, width, height)
  ELSE IF IsC1Like(familyId) THEN C1Configurations(width, height, preconditionData)
  ELSE IF IsD1Like(familyId) THEN D1Configurations(width, height, preconditionData)
  ELSE IF IsA1Like(familyId) THEN A1Configurations(state, width, height, preconditionData)
  ELSE GenericConfigurations(width, height)

\* characters of the decimal representation of a number
Digit(d) == <<"0","1","2","3","4","5","6","7","8","9">>[d + 1]

RECURSIVE Decimal(_)
Decimal(n) ==
  IF n < 0 THEN <<"-">> \o Decimal(-n)
  ELSE IF n < 10 THEN <<Digit(n)>>
  ELSE Decimal(n \div 10) \o <<Digit(n % 10)>>

\* index.toString().padStart(4, '0')
RECURSIVE PadStart4(_)
PadStart4(chars) == IF Len(chars) >= 4 THEN chars ELSE PadStart4(<<"0">> \o chars)

\* `${familyId}_pattern_${index.toString().padStart(4, '0')}`
generatePatternId(familyId, index) ==
  familyId \o <<"_","p","a","t","t","e","r","n","_">> \o PadStart4(Decimal(index))

\* a copy of patternData with originRow and originCol, where present, set to 0
normalizePattern(window, patternData) ==
  [f \in DOMAIN patternData |->
     IF f \in {"originRow", "originCol"} THEN 0 ELSE patternData[f]]

-----------------------------------------------------------------------------
(* deduplicator *)

TypeChars(type) ==
  IF type = "forceStar" THEN <<"f","o","r","c","e","S","t","a","r">>
  ELSE <<"f","o","r","c","e","E","m","p","t","y">>

\* JSON text of a string without characters that need escaping
JsonString(chars) == <<"\"">> \o chars \o <<"\"">>

RECURSIVE JoinComma(_)
JoinComma(parts) ==
  IF parts = <<>> THEN <<>>
  ELSE IF Len(parts) = 1 THEN parts[1]
  ELSE parts[1] \o <<",">> \o JoinComma(Tail(parts))

JsonNumberArray(a) == <<"[">> \o JoinComma([k \in 1..Len(a) |-> Decimal(a[k])]) \o <<"]">>

JsonDeduction(d) ==
  <<"{">> \o JsonString(<<"t","y","p","e">>) \o <<":">> \o JsonString(TypeChars(d.type))
  \o <<",">> \o JsonString(<<"c","e","l","l","s">>) \o <<":">> \o JsonNumberArray(d.cells)
  \o <<"}">>

\* a.type.localeCompare(b.type) for the two deduction types
TypeCompare(a, b) ==
  IF a = b THEN 0 ELSE IF a = "forceEmpty" THEN -1 ELSE 1

RECURSIVE CellsCompare(_, _)
CellsCompare(a, b) ==
  IF a = <<>> THEN 0
  ELSE IF Head(a) # Head(b) THEN Head(a) - Head(b)
  ELSE CellsCompare(Tail(a), Tail(b))

\* the comparator handed to sort in getPatternKey
DeductionCompare(a, b) ==
  IF a.type # b.type THEN TypeCompare(a.type, b.type)
  ELSE IF Len(a.cells) # Len(b.cells) THEN Len(a.cells) - Len(b.cells)
  ELSE CellsCompare(a.cells, b.cells)

\* stable sort with that comparator
RECURSIVE InsertDeduction(_, _)
InsertDeduction(x, sorted) ==
  IF sorted = <<>> THEN <<x>>
  ELSE IF DeductionCompare(x, Head(sorted)) < 0 THEN <<x>> \o sorted
  ELSE <<Head(sorted)>> \o InsertDeduction(x, Tail(sorted))

RECURSIVE SortDeductions(_)
SortDeductions(ds) ==
  IF ds = <<>> THEN <<>>
  ELSE InsertDeduction(ds[Len(ds)], SortDeductions(SubSeq(ds, 1, Len(ds) - 1)))

\* the deductions sorted without sorting each deduction's cells first
sortedDeductions_cellsAsGiven(pattern) ==
  SortDeductions([k \in 1..Len(pattern.deductions) |->
                    [type |-> pattern.deductions[k].type,
                     cells |-> pattern.deductions[k].relativeCellIds]])

sortedDeductions(pattern) ==
  SortDeductions([k \in 1..Len(pattern.deductions) |->
                    [type |-> pattern.deductions[k].type,
                     cells |-> SortNum(pattern.deductions[k].relativeCellIds)]])

\* the key is the JSON text, a sequence of characters
getPatternKey(pattern) ==
  LET ds == sortedDeductions(pattern)
  IN <<"{">> \o JsonString(<<"w","i","d","t","h">>) \o <<":">> \o Decimal(pattern.windowWidth)
     \o <<",">> \o JsonString(<<"h","e","i","g","h","t">>) \o <<":">>
     \o Decimal(pattern.windowHeight)
     \o <<",">> \o JsonString(<<"f","a","m","i","l","y","I","d">>) \o <<":">>
     \o JsonString(pattern.familyId)
     \o <<",">> \o JsonString(<<"d","e","d","u","c","t","i","o","n","s">>) \o <<":">>
     \o <<"[">> \o JoinComma([k \in 1..Len(ds) |-> JsonDeduction(ds[k])]) \o <<"]">>
     \o <<"}">>

RECURSIVE DedupFrom(_, _, _)
DedupFrom(patterns, seen, unique) ==
  IF patterns = <<>> THEN unique
  ELSE LET key == getPatternKey(Head(patterns))
       IN IF key \in seen
            THEN DedupFrom(Tail(patterns), seen, unique)
            ELSE DedupFrom(Tail(patterns), seen \cup {key}, Append(unique, Head(patterns)))

\* keeps the last pattern of each key
deduplicatePatterns_keepLast(patterns) ==
  LET kept == SetToSeq({k \in 1..Len(patterns) :
                         \A j \in (k + 1)..Len(patterns) :
                           getPatternKey(patterns[j]) # getPatternKey(patterns[k])})
  IN [i \in 1..Len(kept) |-> patterns[kept[i]]]

deduplicatePatterns(patterns) == DedupFrom(patterns, {}, <<>>)

\* the keys deduplicatePatterns computes, in the order of the patterns
patternKeys(patterns) == [k \in 1..Len(patterns) |-> getPatternKey(patterns[k])]

-----------------------------------------------------------------------------
(* The state machine *)

MaxMineTimeouts == 1   \* enumerations of one mining run that the timeout may cut

NoVerification == [verified |-> FALSE, actualDeductions |-> <<>>, called |-> FALSE]
\* the arguments of a call of buildWindowBoard
BuildInput(window, boardSize, starsPerUnit, regionMap) ==
  [window |-> window, boardSize |-> boardSize, starsPerUnit |-> starsPerUnit,
   regionMap |-> regionMap]

NoBuildInput ==
  BuildInput([width |-> 0, height |-> 0, originRow |-> 0, originCol |-> 0], 0, 0, <<>>)

NoTest == [holds |-> FALSE]
NoMining ==
  [build |-> "", familyId |-> <<>>, boardSize |-> 0, starsPerUnit |-> 0,
   windowSizes |-> <<>>, sizeIdx |-> 0, width |-> 0, height |-> 0,
   windows |-> <<>>, windowIdx |-> 1, structIdx |-> 1, preconditionTest |-> NoTest,
   groupIdx |-> 1, attempt |-> 0,
   configurations |-> <<>>, configIdx |-> 1, patternsFound |-> 0,
   patternIdCounter |-> 0, timeoutsLeft |-> 0, accepted |-> FALSE,
   uniquePatterns |-> <<>>, patternKeys |-> <<>>]

Init ==
  /\ pc = "start"
  /\ buildInput = NoBuildInput
  /\ baseState = NoBoard
  /\ testState = NoBoard
  /\ clueInput = EmptyConfig
  /\ threw = FALSE
  /\ maxCompletions = 0
  /\ stack = <<>>
  /\ completionCount = 0
  /\ cellResults = <<>>
  /\ calls = 0
  /\ recorded = <<>>
  /\ cut = {}
  /\ runs = <<>>
  /\ verification = NoVerification
  /\ allPatterns = <<>>
  /\ mining = NoMining

(* --- direct calls of the library, as the test scripts make them --- *)

BuildWindowBoard ==
  /\ pc = "start"
  /\ \E window \in Windows, starsPerUnit \in 0..MaxQuota :
       \E regionMap \in RegionMaps(window, BoardSizeFor(window)) :
         /\ buildInput' = BuildInput(window, BoardSizeFor(window), starsPerUnit, regionMap)
         /\ baseState' = buildWindowBoard(window, BoardSizeFor(window), starsPerUnit, regionMap)
  /\ pc' = "built"
  /\ UNCHANGED <<testState, clueInput, threw, runs>>
  /\ UNCHANGED <<solverVars, minerVars>>

ApplyFixedClues ==
  /\ pc = "built"
  /\ \E forcedStars \in ClueLists(baseState), forcedEmpties \in ClueLists(baseState) :
       /\ testState' = applyFixedClues(baseState, forcedStars, forcedEmpties)
       /\ threw' = applyFixedCluesThrows(baseState, forcedStars, forcedEmpties)
       /\ clueInput' = [forcedStars |-> forcedStars, forcedEmpties |-> forcedEmpties]
       /\ baseState' = applyFixedCluesInput(baseState, forcedStars, forcedEmpties)
  /\ buildInput' = NoBuildInput
  /\ pc' = "ready"
  /\ UNCHANGED runs
  /\ UNCHANGED <<solverVars, minerVars>>

\* the running search of the direct call
Search ==
  [stack |-> stack, completionCount |-> completionCount, cellResults |-> cellResults,
   calls |-> calls, recorded |-> recorded, cut |-> cut]

SetSearch(m) ==
  /\ stack' = m.stack
  /\ completionCount' = m.completionCount
  /\ cellResults' = m.cellResults
  /\ calls' = m.calls
  /\ recorded' = m.recorded
  /\ cut' = m.cut

\* A direct call of enumerateAllCompletions up to the call solve(state, 0);
\* at most one more call follows on the same Board with the cap of the first
\* call, whatever the first call returned. Each call has its own timeoutMs
\* and its own clock: either can be cut by the timeout or run to its end.
CallEnumerate ==
  /\ pc = "ready"
  /\ Len(runs) <= 1
  /\ \E K \in 0..MaxCap :
       /\ Len(runs) > 0 => K = runs[1].maxCompletions
       /\ maxCompletions' = K
  /\ SetSearch(NewSearch(testState))
  /\ pc' = "solving"
  /\ UNCHANGED <<boardVars, runs, minerVars>>

(* --- the steps of solve during a direct call; the clock can pass
       timeoutMs at the entry of any call --- *)

\* the clock passes timeoutMs before the test of this call
SolveTimeout ==
  /\ pc = "solving" /\ AtEntry(Search)
  /\ ~("timeout" \in cut)
  /\ SetSearch(StepTimeout(Search))
  /\ UNCHANGED <<pc, boardVars, runs, minerVars, maxCompletions>>

\* the clock has passed timeoutMs at an earlier call
SolveTimedOut ==
  /\ pc = "solving" /\ AtEntry(Search)
  /\ "timeout" \in cut
  /\ SetSearch(StepTimeout(Search))
  /\ UNCHANGED <<pc, boardVars, runs, minerVars, maxCompletions>>

SolveCapReached ==
  /\ pc = "solving" /\ AtEntry(Search)
  /\ ~("timeout" \in cut)
  /\ CapReached(completionCount, maxCompletions)
  /\ SetSearch(StepCapReached(Search))
  /\ UNCHANGED <<pc, boardVars, runs, minerVars, maxCompletions>>

SolveLeaf ==
  /\ pc = "solving" /\ AtEntry(Search)
  /\ ~("timeout" \in cut)
  /\ ~CapReached(completionCount, maxCompletions)
  /\ NextUnknownCell(FrameState(testState, Search)) = NoCell
  /\ SetSearch(StepLeaf(testState, Search))
  /\ UNCHANGED <<pc, boardVars, runs, minerVars, maxCompletions>>

SolveTryStar ==
  /\ pc = "solving" /\ AtEntry(Search)
  /\ ~("timeout" \in cut)
  /\ ~CapReached(completionCount, maxCompletions)
  /\ NextUnknownCell(FrameState(testState, Search)) # NoCell
  /\ SetSearch(StepTryStar(testState, Search))
  /\ UNCHANGED <<pc, boardVars, runs, minerVars, maxCompletions>>

SolveTryEmpty ==
  /\ pc = "solving" /\ stack # <<>> /\ TopFrame(Search).at = "afterStar"
  /\ SetSearch(StepTryEmpty(testState, Search))
  /\ UNCHANGED <<pc, boardVars, runs, minerVars, maxCompletions>>

SolveReturn ==
  /\ pc = "solving" /\ stack # <<>> /\ TopFrame(Search).at = "afterEmpty"
  /\ SetSearch(StepReturn(Search))
  /\ UNCHANGED <<pc, boardVars, runs, minerVars, maxCompletions>>

\* what a caller holds after a call: the cap it passed and the analysis; cut
\* is not part of the returned value
RunResult(who, K, analysis, howCut) ==
  [caller |-> who, maxCompletions |-> K, cut |-> howCut, analysis |-> analysis]

\* enumerateAllCompletions returns its analysis to a direct caller
ReturnAnalysis ==
  /\ pc = "solving" /\ stack = <<>>
  /\ runs' = Append(runs, RunResult("direct", maxCompletions,
                                    Analyze(cellResults, completionCount), cut))
  /\ pc' = "ready"
  /\ UNCHANGED <<boardVars, solverVars, minerVars>>

(* --- generatePatternsForFamily(familyId, boardSize, starsPerUnit, windowSizes) --- *)

MaxMineDim == 3        \* widths and heights of a window size that need not be square
MaxListDim == 2        \* widths and heights of the window sizes of a list of two sizes

\* the window sizes with width and height up to n
SizesUpTo(n) == {[width |-> w, height |-> h] : w \in 1..n, h \in 1..n}

Square(n) == [width |-> n, height |-> n]

\* the arguments of a call of generatePatternsForFamily and the number of
\* enumerations of the run that the timeout may cut
MineCall(familyId, boardSize, starsPerUnit, windowSizes, timeouts) ==
  [familyId |-> familyId, boardSize |-> boardSize, starsPerUnit |-> starsPerUnit,
   windowSizes |-> windowSizes, timeouts |-> timeouts]

\* the board sizes of the mining runs
MinedBoardSizes == (1..MaxDim) \cup {MinedWindowDim}

\* calls with one square window size that fits the board
SquareCalls(familyIds, boardSizes, quotas, budgets) ==
  {MineCall(f, b, q, <<Square(n)>>, t) :
     <<f, b, q, n, t>> \in
       {c \in familyIds \X boardSizes \X quotas \X boardSizes \X budgets : c[4] <= c[2]}}

\* calls with one window size that is not square, on the smallest board that holds it
ShapeCalls(familyIds, quotas) ==
  {MineCall(f, Max2(s.width, s.height), q, <<s>>, 0) :
     f \in familyIds, q \in quotas,
     s \in {z \in SizesUpTo(MaxMineDim) : z.width # z.height}}

\* calls with no window size, with two small sizes, or with a small size and
\* one too large for the board
ListCalls(familyIds, quotas) ==
  {MineCall(f, MaxListDim, q, sizes, 0) :
     f \in familyIds, q \in quotas,
     sizes \in {<<>>} \cup {<<s, t>> : s \in SizesUpTo(MaxListDim),
                                       t \in SizesUpTo(MaxListDim)
                                              \cup {Square(MaxListDim + 1)}}}

(* The repository holds three definitions of generatePatternsForFamily: the
   first one of patternGenerator.ts, with the E1 branch, the solvability
   checks and the cap on the patterns of a window size; the one of the
   compiled module, without any of the three and with its own
   generateRegionStructures; and the second one of patternGenerator.ts, which
   also makes the one region map of each window itself and has a
   generateTestConfigurations of its own.  A run is a run of one of them. *)
CurrentBuild == "current"
CompiledBuild == "compiled"
EarlierBuild == "earlier"
Builds == {CurrentBuild, CompiledBuild, EarlierBuild}

CurrentWindow == mining.windows[mining.windowIdx]

\* the region maps the loop of run m tries for its current window
RegionStructures(m) ==
  IF m.build = EarlierBuild
    THEN << AbsRowRegions(m.windows[m.windowIdx], m.boardSize) >>
  ELSE IF m.build = CompiledBuild
    THEN CompiledRegionStructures(m.width, m.height, m.familyId)
  ELSE generateRegionStructures(m.width, m.height, m.familyId)

\* the configurations run m tries on a base board that passed the test
TestConfigurations(m, base, test) ==
  IF m.build = EarlierBuild
    THEN EarlierConfigurations(m.width, m.height)
    ELSE generateTestConfigurations(base, m.windows[m.windowIdx], m.width, m.height,
                                    m.familyId, test.data)

\* the position of the next iteration of the region-structure loop; past the
\* last window the loop over the window sizes goes on
AdvanceStructure(m) ==
  IF m.structIdx < Len(RegionStructures(m))
    THEN [m EXCEPT !.structIdx = @ + 1]
    ELSE [m EXCEPT !.windowIdx = @ + 1, !.structIdx = 1]

\* the call up to "for (const { width, height } of windowSizes)"
MineStartWith(builds, mineCalls) ==
  /\ pc = "start"
  /\ \E build \in builds, call \in mineCalls :
       mining' = [NoMining EXCEPT !.build = build,
                                  !.familyId = call.familyId,
                                  !.boardSize = call.boardSize,
                                  !.starsPerUnit = call.starsPerUnit,
                                  !.windowSizes = call.windowSizes,
                                  !.timeoutsLeft = call.timeouts]
  /\ pc' = "mine_structure"
  /\ UNCHANGED <<boardVars, solverVars, runs, verification, allPatterns>>

MineStart ==
  MineStartWith(Builds,
                SquareCalls(Families, MinedBoardSizes, 0..MaxQuota, 0..MaxMineTimeouts)
                  \cup ShapeCalls(Families, 0..MaxQuota)
                  \cup ListCalls(Families, 0..MaxQuota))

\* the next iteration of "for (const { width, height } of windowSizes)", when
\* the windows of the size before are done: enumerate the windows and start
\* patternsFound again; patternIdCounter and allPatterns go on
MineSize ==
  /\ pc = "mine_structure"
  /\ mining.windowIdx > Len(mining.windows)
  /\ mining.sizeIdx < Len(mining.windowSizes)
  /\ LET size == mining.windowSizes[mining.sizeIdx + 1]
     IN mining' = [mining EXCEPT
                     !.sizeIdx = @ + 1,
                     !.width = size.width, !.height = size.height,
                     !.windows = enumerateWindows(mining.boardSize, size.width, size.height),
                     !.windowIdx = 1, !.structIdx = 1,
                     !.patternsFound = 0]
  /\ pc' = "mine_structure"
  /\ UNCHANGED <<boardVars, solverVars, runs, verification, allPatterns>>

\* The points at which the clock can pass the timeout of a call: never, or,
\* while the mining run has timeouts left, at the entry of a call of solve
\* that the search makes. A timeout at any call returns what the timeout at
\* the last marked call before it returns, so the marked calls stand for all.
MarkedCalls(whole) == {d \in whole.marks : d < whole.calls}

Deadlines(state, K, timeoutsLeft) ==
  {NoDeadline} \cup
    (IF timeoutsLeft > 0
       THEN MarkedCalls(enumerateAllCompletions(state, K, NoDeadline))
       ELSE {})

TimeoutsAfter(deadline, timeoutsLeft) ==
  IF deadline = NoDeadline THEN timeoutsLeft ELSE timeoutsLeft - 1

IsE1Family(familyId) == IsE1Like(familyId)

\* the run takes the E1 branch of the region-structure loop
TakesE1Branch(m) == m.build = CurrentBuild /\ IsE1Family(m.familyId)

(* The E1 branch of the region-structure loop: for each row, then each column,
   of the base board with more candidates than its quota, a number of
   attempts, each forcing candidates of the group to Empty until as many
   candidates as the quota are left. *)

\* the rows, then the columns, with the fields the two loops read
E1Groups(base) ==
  [k \in 1..(Len(base.rows) + Len(base.cols)) |->
     IF k <= Len(base.rows)
       THEN [group_type |-> "row", group_id |-> base.rows[k].rowIndex,
             cells |-> base.rows[k].cells, starsRequired |-> base.rows[k].starsRequired]
       ELSE [group_type |-> "column",
             group_id |-> base.cols[k - Len(base.rows)].colIndex,
             cells |-> base.cols[k - Len(base.rows)].cells,
             starsRequired |-> base.cols[k - Len(base.rows)].starsRequired]]

E1Candidates(group, base) ==
  SelectSeq(group.cells, LAMBDA c : CellAt(base.cellStates, c) = Unknown)

Min2(a, b) == IF a <= b THEN a ELSE b

\* maxAttempts of the row loop and of the column loop
E1MaxAttempts(group, base, starsPerUnit, width, height) ==
  LET n == Len(E1Candidates(group, base))
      emptiesToPlace == n - group.starsRequired
  IN IF group.group_type = "row"
       THEN IF starsPerUnit >= 2
              THEN (IF width >= 10 \/ height >= 10 THEN Min2(50, n \div 2)
                    ELSE Min2(30, n \div 2))
              ELSE Min2(5, n - emptiesToPlace + 1)
       ELSE IF starsPerUnit >= 2 THEN Min2(25, n \div 2)
            ELSE Min2(3, n - emptiesToPlace + 1)

\* "for (let i = 0; i < emptiesToPlace; i++)" of the spaced strategy
RECURSIVE SpacedEmpties(_, _, _, _, _, _)
SpacedEmpties(candidates, emptiesToPlace, attempt, step, i, forcedEmpties) ==
  IF i >= emptiesToPlace THEN forcedEmpties
  ELSE LET c == candidates[((attempt + i * step) % Len(candidates)) + 1]
           pushed == IF c \in Range(forcedEmpties) THEN forcedEmpties
                     ELSE Append(forcedEmpties, c)
       IN IF Len(pushed) >= emptiesToPlace THEN pushed
          ELSE SpacedEmpties(candidates, emptiesToPlace, attempt, step, i + 1, pushed)

\* "while (forcedEmpties.length < emptiesToPlace && ...)": fill with the first
\* candidates not yet taken
RECURSIVE FillEmpties(_, _, _)
FillEmpties(candidates, emptiesToPlace, forcedEmpties) ==
  IF Len(forcedEmpties) < emptiesToPlace /\ Len(forcedEmpties) < Len(candidates)
    THEN LET free == SelectSeq(candidates, LAMBDA c : ~(c \in Range(forcedEmpties)))
         IN FillEmpties(candidates, emptiesToPlace, Append(forcedEmpties, free[1]))
    ELSE forcedEmpties

\* forcedEmpties of one attempt
E1ForcedEmpties(candidates, emptiesToPlace, attempt, starsPerUnit) ==
  IF starsPerUnit >= 2
    THEN FillEmpties(candidates, emptiesToPlace,
           SpacedEmpties(candidates, emptiesToPlace, attempt,
                         Max2(1, Len(candidates) \div emptiesToPlace), 0, <<>>))
    ELSE [i \in 1..emptiesToPlace |-> candidates[((attempt + (i - 1)) % Len(candidates)) + 1]]

\* The next attempt that the two loops make from the position of m: the
\* groups without spare candidates are passed over, a group is left after its
\* last attempt, and "if (patternsFound >= 10) break" at the head of an
\* iteration ends the row loop or the column loop.
RECURSIVE E1Settle(_, _)
E1Settle(m, base) ==
  LET groups == E1Groups(base)
      g == m.groupIdx
  IN IF g > Len(groups) THEN m
     ELSE IF m.attempt = 0 /\ m.patternsFound >= PatternsPerSizeCap
       THEN (IF g <= Len(base.rows)
               THEN E1Settle([m EXCEPT !.groupIdx = Len(base.rows) + 1], base)
               ELSE [m EXCEPT !.groupIdx = Len(groups) + 1])
     ELSE IF \/ Len(E1Candidates(groups[g], base)) <= groups[g].starsRequired
             \/ m.attempt >= E1MaxAttempts(groups[g], base, m.starsPerUnit, m.width, m.height)
       THEN E1Settle([m EXCEPT !.groupIdx = g + 1, !.attempt = 0], base)
     ELSE m

\* the mining run at its next attempt, or, after the column loop, at
\* "continue" of the region-structure loop
E1Goto(m, base) ==
  LET at == E1Settle(m, base)
  IN IF at.groupIdx > Len(E1Groups(base))
       THEN /\ mining' = AdvanceStructure([at EXCEPT !.groupIdx = 1, !.attempt = 0])
            /\ pc' = "mine_structure"
       ELSE /\ mining' = at
            /\ pc' = "mine_e1"

\* One iteration of "for (const regionMap of regionStructures)" up to the first
\* configuration or, for an E1 family, up to the first attempt
MineStructure ==
  /\ pc = "mine_structure"
  /\ mining.windowIdx <= Len(mining.windows)
  /\ LET structures == RegionStructures(mining)
         base == buildWindowBoard(CurrentWindow, mining.boardSize, mining.starsPerUnit,
                                  structures[mining.structIdx])
         test == testSchemaPreconditions(mining.familyId, base, CurrentWindow)
     IN /\ buildInput' = BuildInput(CurrentWindow, mining.boardSize, mining.starsPerUnit,
                                    structures[mining.structIdx])
        /\ baseState' = base
        /\ IF TakesE1Branch(mining)
             THEN \E deadline \in Deadlines(base, SolvabilityCap, mining.timeoutsLeft) :
                    \E baseSolvability \in
                         {enumerateAllCompletions(base, SolvabilityCap, deadline)},
                       left \in {TimeoutsAfter(deadline, mining.timeoutsLeft)} :
                      IF baseSolvability.analysis.totalCompletions = 0
                        THEN /\ mining' = AdvanceStructure(
                                            [mining EXCEPT !.preconditionTest = test,
                                                           !.timeoutsLeft = left])
                             /\ pc' = "mine_structure"
                        ELSE E1Goto([mining EXCEPT !.preconditionTest = test,
                                                   !.timeoutsLeft = left,
                                                   !.groupIdx = 1, !.attempt = 0], base)
           ELSE IF ~test.holds
             THEN /\ mining' = AdvanceStructure([mining EXCEPT !.preconditionTest = test])
                  /\ pc' = "mine_structure"
             ELSE /\ mining' = [mining EXCEPT
                                  !.preconditionTest = test,
                                  !.configurations = TestConfigurations(mining, base, test),
                                  !.configIdx = 1]
                  /\ pc' = "mine_config"
  /\ UNCHANGED <<testState, clueInput, threw, solverVars, runs, verification, allPatterns>>

\* the group and the clues of the attempt the E1 branch is at
E1Group == E1Groups(baseState)[mining.groupIdx]

E1Config ==
  LET candidates == E1Candidates(E1Group, baseState)
  IN [forcedStars |-> <<>>,
      forcedEmpties |-> E1ForcedEmpties(candidates, Len(candidates) - E1Group.starsRequired,
                                        mining.attempt, mining.starsPerUnit)]

\* "const testState = applyFixedClues(baseState, ...)" of the current iteration
\* of "for (const config of configurations)" or of the current attempt
InjectClues(config) ==
  /\ testState' = applyFixedClues(baseState, config.forcedStars, config.forcedEmpties)
  /\ clueInput' = config
  /\ threw' = applyFixedCluesThrows(baseState, config.forcedStars, config.forcedEmpties)
  /\ baseState' = applyFixedCluesInput(baseState, config.forcedStars, config.forcedEmpties)
  /\ UNCHANGED buildInput

\* An attempt that ends before verifyPattern: the test state has no
\* completion within the cap and the timeout, or the precondition of the family
\* does not hold on it
MineE1Skipped ==
  /\ pc = "mine_e1"
  /\ InjectClues(E1Config)
  /\ \E deadline \in Deadlines(testState', SolvabilityCap, mining.timeoutsLeft) :
       \E solvabilityCheck \in {enumerateAllCompletions(testState', SolvabilityCap, deadline)} :
          /\ \/ solvabilityCheck.analysis.totalCompletions = 0
             \/ ~testSchemaPreconditions(mining.familyId, testState', CurrentWindow).holds
          /\ runs' = << RunResult("solvabilityCheck", SolvabilityCap,
                                  solvabilityCheck.analysis, solvabilityCheck.cut) >>
          /\ E1Goto([mining EXCEPT !.attempt = @ + 1,
                                   !.accepted = FALSE,
                                   !.timeoutsLeft = TimeoutsAfter(deadline, @)], baseState)
  /\ verification' = NoVerification
  /\ UNCHANGED <<solverVars, allPatterns>>

\* "const verification = await verifyPattern(testState, window, [])" up to
\* the await: verifyPattern has run its search on the test state of this step
\* and returned; the function is suspended, nothing is pushed or counted yet.
\* checks are the runs of the solvability checks before the call.
CallVerifyPattern(checks, left) ==
  \E verifyDeadline \in Deadlines(testState', VerifierCap, left) :
    \E search \in {enumerateAllCompletions(testState', VerifierCap, verifyDeadline)} :
      \E result \in {verifyPattern(testState', CurrentWindow, search.analysis)} :
        /\ runs' = Append(checks, RunResult("verifyPattern", VerifierCap,
                                            search.analysis, search.cut))
        /\ verification' = [verified |-> result.verified,
                            actualDeductions |-> result.actualDeductions,
                            called |-> TRUE]
        /\ mining' = [mining EXCEPT !.timeoutsLeft = TimeoutsAfter(verifyDeadline, left),
                                    !.accepted = FALSE]

\* "if (verification.verified && verification.actualDeductions.length > 0)"
PassesVerification ==
  verification.verified /\ Len(verification.actualDeductions) > 0

\* the run after "allPatterns.push(...); patternsFound++" or after the test failed
Counted ==
  [mining EXCEPT !.accepted = PassesVerification,
                 !.patternsFound = IF PassesVerification THEN @ + 1 ELSE @,
                 !.patternIdCounter = IF PassesVerification THEN @ + 1 ELSE @]

\* the Pattern object of the E1 branch
NewE1Pattern(config, result) ==
  [id |-> generatePatternId(mining.familyId, mining.patternIdCounter),
   familyId |-> mining.familyId,
   windowWidth |-> mining.width,
   windowHeight |-> mining.height,
   data |-> [group_type |-> E1Group.group_type,
             group_id |-> E1Group.group_id,
             forced_empties |-> config.forcedEmpties],
   deductions |-> result.actualDeductions]

\* An attempt that reaches verifyPattern, up to the await
MineE1Verified ==
  /\ pc = "mine_e1"
  /\ InjectClues(E1Config)
  /\ \E deadline \in Deadlines(testState', SolvabilityCap, mining.timeoutsLeft) :
       \E solvabilityCheck \in {enumerateAllCompletions(testState', SolvabilityCap, deadline)} :
          /\ solvabilityCheck.analysis.totalCompletions # 0
          /\ testSchemaPreconditions(mining.familyId, testState', CurrentWindow).holds
          /\ CallVerifyPattern(<< RunResult("solvabilityCheck", SolvabilityCap,
                                            solvabilityCheck.analysis, solvabilityCheck.cut) >>,
                               TimeoutsAfter(deadline, mining.timeoutsLeft))
  /\ pc' = "mine_e1_await"
  /\ UNCHANGED <<solverVars, allPatterns>>

\* The attempt resumes after the await: an accepted pattern is pushed and
\* counted and ends the attempts of its group
MineE1Recorded ==
  /\ pc = "mine_e1_await"
  /\ allPatterns' =
       IF PassesVerification
         THEN Append(allPatterns, canonicalizePattern(NewE1Pattern(clueInput, verification)))
         ELSE allPatterns
  /\ IF PassesVerification
       THEN E1Goto([Counted EXCEPT !.groupIdx = @ + 1, !.attempt = 0], baseState)
       ELSE E1Goto([Counted EXCEPT !.attempt = @ + 1], baseState)
  /\ UNCHANGED <<boardVars, solverVars, runs, verification>>

\* the configuration loop is exhausted
MineConfigsDone ==
  /\ pc = "mine_config"
  /\ mining.configIdx > Len(mining.configurations)
  /\ mining' = AdvanceStructure(mining)
  /\ pc' = "mine_structure"
  /\ UNCHANGED <<boardVars, solverVars, runs, verification, allPatterns>>

\* the definition of the run has "const solvabilityCheck = ..." in its loops
HasSolvabilityCheck(m) == m.build = CurrentBuild

\* the definition of the run has "if (patternsFound >= 10) break" in its loops
HasPatternsCap(m) == m.build = CurrentBuild

\* One iteration of "for (const config of configurations)" that the
\* solvability check ends: "if (solvabilityCheck.totalCompletions === 0) continue"
MineConfigSkipped ==
  /\ pc = "mine_config"
  /\ HasSolvabilityCheck(mining)
  /\ mining.configIdx <= Len(mining.configurations)
  /\ InjectClues(mining.configurations[mining.configIdx])
  /\ \E deadline \in Deadlines(testState', SolvabilityCap, mining.timeoutsLeft) :
       \E solvabilityCheck \in {enumerateAllCompletions(testState', SolvabilityCap, deadline)} :
          /\ solvabilityCheck.analysis.totalCompletions = 0
          /\ runs' = << RunResult("solvabilityCheck", SolvabilityCap,
                                  solvabilityCheck.analysis, solvabilityCheck.cut) >>
          /\ mining' = [mining EXCEPT
                          !.configIdx = @ + 1,
                          !.accepted = FALSE,
                          !.timeoutsLeft = TimeoutsAfter(deadline, @)]
  /\ verification' = NoVerification
  /\ pc' = "mine_config"
  /\ UNCHANGED <<solverVars, allPatterns>>

\* the Pattern object built from a verification result
NewPattern(config, result) ==
  [id |-> generatePatternId(mining.familyId, mining.patternIdCounter),
   familyId |-> mining.familyId,
   windowWidth |-> mining.width,
   windowHeight |-> mining.height,
   data |-> normalizePattern(CurrentWindow,
              Spread(mining.preconditionTest.data,
                     [forcedStars |-> config.forcedStars,
                      forcedEmpties |-> config.forcedEmpties])),
   deductions |-> result.actualDeductions]

\* One iteration of "for (const config of configurations)" that calls
\* verifyPattern, up to the await; where the loop has a solvability check
\* the test state has passed it
MineConfigVerified ==
  /\ pc = "mine_config"
  /\ mining.configIdx <= Len(mining.configurations)
  /\ InjectClues(mining.configurations[mining.configIdx])
  /\ IF HasSolvabilityCheck(mining)
       THEN \E deadline \in Deadlines(testState', SolvabilityCap, mining.timeoutsLeft) :
              \E solvabilityCheck \in
                   {enumerateAllCompletions(testState', SolvabilityCap, deadline)} :
                /\ solvabilityCheck.analysis.totalCompletions # 0
                /\ CallVerifyPattern(
                     << RunResult("solvabilityCheck", SolvabilityCap,
                                  solvabilityCheck.analysis, solvabilityCheck.cut) >>,
                     TimeoutsAfter(deadline, mining.timeoutsLeft))
       ELSE CallVerifyPattern(<<>>, mining.timeoutsLeft)
  /\ pc' = "mine_config_await"
  /\ UNCHANGED <<solverVars, allPatterns>>

\* The iteration resumes after the await: "if (verification.verified &&
\* verification.actualDeductions.length > 0)" push the canonicalized pattern
\* and count it, then, where the loop has it, "if (patternsFound >= 10) break"
MineConfigRecorded ==
  /\ pc = "mine_config_await"
  /\ allPatterns' =
       IF PassesVerification
         THEN Append(allPatterns, canonicalizePattern(NewPattern(clueInput, verification)))
         ELSE allPatterns
  /\ IF /\ HasPatternsCap(mining)
        /\ PassesVerification
        /\ Counted.patternsFound >= PatternsPerSizeCap
       THEN /\ mining' = AdvanceStructure(Counted)
            /\ pc' = "mine_structure"
       ELSE /\ mining' = [Counted EXCEPT !.configIdx = @ + 1]
            /\ pc' = "mine_config"
  /\ UNCHANGED <<boardVars, solverVars, runs, verification>>

\* all window sizes are processed: deduplicate
MineFinish ==
  /\ pc = "mine_structure"
  /\ mining.windowIdx > Len(mining.windows)
  /\ mining.sizeIdx >= Len(mining.windowSizes)
  /\ mining' = [mining EXCEPT !.uniquePatterns = deduplicatePatterns(allPatterns),
                               !.patternKeys = patternKeys(allPatterns)]
  /\ pc' = "mine_done"
  /\ UNCHANGED <<boardVars, solverVars, runs, verification, allPatterns>>

Next ==
  \/ BuildWindowBoard
  \/ ApplyFixedClues
  \/ CallEnumerate
  \/ SolveTimeout
  \/ SolveTimedOut
  \/ SolveCapReached
  \/ SolveLeaf
  \/ SolveTryStar
  \/ SolveTryEmpty
  \/ SolveReturn
  \/ ReturnAnalysis
  \/ MineStart
  \/ MineSize
  \/ MineStructure
  \/ MineE1Skipped
  \/ MineE1Verified
  \/ MineE1Recorded
  \/ MineConfigsDone
  \/ MineConfigSkipped
  \/ MineConfigVerified
  \/ MineConfigRecorded
  \/ MineFinish

Spec == Init /\ [][Next]_vars

(* Mining on an 8x8 board with one star per unit for the small window sizes
   and for the 8x8 window, with timeouts too large to trigger: 8x8 is the
   smallest square board with more completions than the verifier's cap. *)
CapBoardSize == 8

MineStartCap ==
  MineStartWith({CurrentBuild},
                {MineCall(F9_other, CapBoardSize, 1, <<Square(n)>>, 0) :
                   n \in (1..MaxDim) \cup {MinedWindowDim, CapBoardSize}})

NextCap ==
  \/ MineStartCap
  \/ MineSize
  \/ MineStructure
  \/ MineConfigsDone
  \/ MineConfigSkipped
  \/ MineConfigVerified
  \/ MineConfigRecorded
  \/ MineFinish

SpecCap == Init /\ [][NextCap]_vars

(* deduplicatePatterns called on two Pattern objects.  The first pattern is
   drawn from all patterns with at most MaxKeyDeductions deductions of at
   most MaxKeyCells cell ids each (repetitions included); the second is the
   first with one thing changed. *)
MaxKeyDeductions == 2
MaxKeyCells == 2
\* the two ids sort differently as numbers and as strings
KeyCellIds == {2, 10}

SeqsUpTo(S, n) == UNION {[1..k -> S] : k \in 0..n}

KeyDeductions ==
  {[type |-> t, relativeCellIds |-> c] :
     t \in {"forceStar", "forceEmpty"}, c \in SeqsUpTo(KeyCellIds, MaxKeyCells)}

KeyPatterns ==
  {[id |-> generatePatternId(D1_rowColIntersection, 0),
    familyId |-> D1_rowColIntersection,
    windowWidth |-> 1,
    windowHeight |-> 1,
    data |-> [forcedStars |-> <<>>, forcedEmpties |-> <<>>],
    deductions |-> ds] : ds \in SeqsUpTo(KeyDeductions, MaxKeyDeductions)}

Reverse(s) == [k \in 1..Len(s) |-> s[Len(s) + 1 - k]]
RemoveAt(s, k) == SubSeq(s, 1, k - 1) \o SubSeq(s, k + 1, Len(s))
ReverseCells(d) == [d EXCEPT !.relativeCellIds = Reverse(@)]

\* the same deductions in another order
Reorderings(ds) ==
  {Reverse(ds), [k \in 1..Len(ds) |-> ReverseCells(ds[k])],
   Reverse([k \in 1..Len(ds) |-> ReverseCells(ds[k])])}
    \cup {[ds EXCEPT ![k] = ReverseCells(@)] : k \in 1..Len(ds)}

\* one deduction or one cell id changed, added or removed
Changes(ds) ==
  {RemoveAt(ds, k) : k \in 1..Len(ds)}
    \cup {Append(ds, ds[k]) : k \in 1..Len(ds)}
    \cup {[ds EXCEPT ![k].type = IF @ = "forceStar" THEN "forceEmpty" ELSE "forceStar"] :
           k \in 1..Len(ds)}
    \cup {[ds EXCEPT ![k].relativeCellIds = Append(@, c)] :
           k \in 1..Len(ds), c \in KeyCellIds}
    \cup UNION {{[ds EXCEPT ![k].relativeCellIds = RemoveAt(@, j)] :
                  j \in 1..Len(ds[k].relativeCellIds)} : k \in 1..Len(ds)}
    \cup UNION {{[ds EXCEPT ![k].relativeCellIds[j] = c] :
                  j \in 1..Len(ds[k].relativeCellIds), c \in KeyCellIds} :
                 k \in 1..Len(ds)}

Variants(p) ==
  {[p EXCEPT !.id = generatePatternId(F9_other, 1),
             !.data = [@ EXCEPT !.forcedStars = <<1>>]],
   [p EXCEPT !.windowWidth = @ + 1],
   [p EXCEPT !.windowHeight = @ + 1],
   [p EXCEPT !.windowWidth = @ + 1, !.windowHeight = @ + 1],
   [p EXCEPT !.familyId = F9_other]}
    \cup {[p EXCEPT !.deductions = ds, !.id = generatePatternId(p.familyId, 1)] :
           ds \in Reorderings(p.deductions) \cup Changes(p.deductions)}

InitKey ==
  /\ pc = "dedup_start"
  /\ buildInput = NoBuildInput
  /\ baseState = NoBoard
  /\ testState = NoBoard
  /\ clueInput = EmptyConfig
  /\ threw = FALSE
  /\ maxCompletions = 0
  /\ stack = <<>>
  /\ completionCount = 0
  /\ cellResults = <<>>
  /\ calls = 0
  /\ recorded = <<>>
  /\ cut = {}
  /\ runs = <<>>
  /\ verification = NoVerification
  /\ allPatterns \in {<<p>> : p \in KeyPatterns}
  /\ mining = NoMining

DeduplicatePair ==
  /\ pc = "dedup_start"
  /\ \E other \in Variants(allPatterns[1]) :
       /\ allPatterns' = <<allPatterns[1], other>>
       /\ mining' = [mining EXCEPT !.uniquePatterns = deduplicatePatterns(allPatterns'),
                                    !.patternKeys = patternKeys(allPatterns')]
  /\ pc' = "dedup_done"
  /\ UNCHANGED <<boardVars, solverVars, runs, verification>>

NextKey == DeduplicatePair

SpecKey == InitKey /\ [][NextKey]_vars

(* deduplicatePatterns called on a list of up to MaxDedupLen patterns, and
   called again on its own result.  The patterns are one pattern and its
   variants that differ in id, data, window size, family or in the order of
   the deductions and of their cells. *)
MaxDedupLen == 3

DedupBase ==
  [id |-> generatePatternId(D1_rowColIntersection, 0),
   familyId |-> D1_rowColIntersection,
   windowWidth |-> 1,
   windowHeight |-> 1,
   data |-> [forcedStars |-> <<>>, forcedEmpties |-> <<>>],
   deductions |-> << [type |-> "forceStar", relativeCellIds |-> <<10, 2>>],
                     [type |-> "forceEmpty", relativeCellIds |-> <<2>>] >>]

DedupPool ==
  {DedupBase}
    \cup {v \in Variants(DedupBase) :
            v.deductions \in {DedupBase.deductions} \cup Reorderings(DedupBase.deductions)}

InitDedup ==
  /\ pc = "dedup_start"
  /\ buildInput = NoBuildInput
  /\ baseState = NoBoard
  /\ testState = NoBoard
  /\ clueInput = EmptyConfig
  /\ threw = FALSE
  /\ maxCompletions = 0
  /\ stack = <<>>
  /\ completionCount = 0
  /\ cellResults = <<>>
  /\ calls = 0
  /\ recorded = <<>>
  /\ cut = {}
  /\ runs = <<>>
  /\ verification = NoVerification
  /\ allPatterns \in SeqsUpTo(DedupPool, MaxDedupLen)
  /\ mining = NoMining

\* "const uniquePatterns = deduplicatePatterns(allPatterns)"
Deduplicate ==
  /\ pc = "dedup_start"
  /\ mining' = [mining EXCEPT !.uniquePatterns = deduplicatePatterns(allPatterns),
                               !.patternKeys = patternKeys(allPatterns)]
  /\ pc' = "dedup_done"
  /\ UNCHANGED <<boardVars, solverVars, runs, verification, allPatterns>>

\* deduplicatePatterns called on the list it returned
DeduplicateAgain ==
  /\ pc = "dedup_done"
  /\ allPatterns' = mining.uniquePatterns
  /\ mining' = [mining EXCEPT !.uniquePatterns = deduplicatePatterns(allPatterns'),
                               !.patternKeys = patternKeys(allPatterns')]
  /\ pc' = "dedup_again"
  /\ UNCHANGED <<boardVars, solverVars, runs, verification>>

NextDedup ==
  \/ Deduplicate
  \/ DeduplicateAgain

SpecDedup == InitDedup /\ [][NextDedup]_vars

(* "const windows = enumerateWindows(boardSize, width, height)" of
   generatePatternsForFamily for a window size of any shape, also one that
   does not fit the board. *)
MaxEnumDim == 5    \* board sizes, widths and heights of a call of enumerateWindows

EnumerateWindows ==
  /\ pc = "start"
  /\ \E boardSize \in 0..MaxEnumDim, width \in 1..MaxEnumDim, height \in 1..MaxEnumDim :
       mining' = [NoMining EXCEPT !.boardSize = boardSize,
                                  !.width = width, !.height = height,
                                  !.windows = enumerateWindows(boardSize, width, height)]
  /\ pc' = "windows"
  /\ UNCHANGED <<boardVars, solverVars, runs, verification, allPatterns>>

NextWindows == EnumerateWindows

SpecWindows == Init /\ [][NextWindows]_vars

(* The candidate-deficit scripts (testE1Valid, test2_E1Pattern,
   testE1Patterns): a window at origin 0 of a 10x10 board whose regions are
   its rows, or the whole window, with one star per unit; the cells of the
   top row but its last forced Empty; one call of enumerateAllCompletions. *)
MaxScriptDim == 5
ScriptBoardSize == 10
ScriptCap == 100

ScriptWindows ==
  {[width |-> w, height |-> h, originRow |-> 0, originCol |-> 0] :
     w \in 1..MaxScriptDim, h \in 1..MaxScriptDim}

\* [0, 1, 2] on a window 4 wide, [0, 1, 2, 3] on a window 5 wide
TopRowButLast(state) == [k \in 1..(state.windowWidth - 1) |-> k - 1]

ScriptBuild ==
  /\ pc = "start"
  /\ \E window \in ScriptWindows :
       \E regionMap \in {<<>>, AbsRowRegions(window, ScriptBoardSize)} :
         /\ buildInput' = BuildInput(window, ScriptBoardSize, 1, regionMap)
         /\ baseState' = buildWindowBoard(window, ScriptBoardSize, 1, regionMap)
  /\ pc' = "built"
  /\ UNCHANGED <<testState, clueInput, threw, runs>>
  /\ UNCHANGED <<solverVars, minerVars>>

ScriptClues ==
  /\ pc = "built"
  /\ \E forcedStars \in {<<>>, <<0>>}, forcedEmpties \in {<<>>, TopRowButLast(baseState)} :
       /\ testState' = applyFixedClues(baseState, forcedStars, forcedEmpties)
       /\ threw' = applyFixedCluesThrows(baseState, forcedStars, forcedEmpties)
       /\ clueInput' = [forcedStars |-> forcedStars, forcedEmpties |-> forcedEmpties]
       /\ baseState' = applyFixedCluesInput(baseState, forcedStars, forcedEmpties)
  /\ buildInput' = NoBuildInput
  /\ pc' = "ready"
  /\ UNCHANGED runs
  /\ UNCHANGED <<solverVars, minerVars>>

\* "const analysis = enumerateAllCompletions(testState, 100, 5000)", the
\* clock passing the timeout at some call of solve or never
ScriptEnumerate ==
  /\ pc = "ready" /\ runs = <<>>
  /\ \E K \in {SolvabilityCap, ScriptCap} :
       \E deadline \in Deadlines(testState, K, 1) :
         \E result \in {enumerateAllCompletions(testState, K, deadline)} :
           runs' = << RunResult("direct", K, result.analysis, result.cut) >>
  /\ pc' = "script_done"
  /\ UNCHANGED <<boardVars, solverVars, minerVars>>

NextScript ==
  \/ ScriptBuild
  \/ ScriptClues
  \/ ScriptEnumerate

SpecScript == Init /\ [][NextScript]_vars

(* The same scripts with the call of enumerateAllCompletions followed step
   by step through solve. *)
ScriptCallEnumerate ==
  /\ pc = "ready" /\ runs = <<>>
  /\ \E K \in {SolvabilityCap, ScriptCap} : maxCompletions' = K
  /\ SetSearch(NewSearch(testState))
  /\ pc' = "solving"
  /\ UNCHANGED <<boardVars, runs, minerVars>>

NextSearch ==
  \/ ScriptBuild
  \/ ScriptClues
  \/ ScriptCallEnumerate
  \/ SolveTimeout
  \/ SolveTimedOut
  \/ SolveCapReached
  \/ SolveLeaf
  \/ SolveTryStar
  \/ SolveTryEmpty
  \/ SolveReturn
  \/ ReturnAnalysis

SpecSearch == Init /\ [][NextSearch]_vars

\* A call of enumerateAllCompletions runs to its return once it has started;
\* nothing makes the clock pass the timeout.
RunsOn ==
  \/ SolveTimedOut
  \/ SolveCapReached
  \/ SolveLeaf
  \/ SolveTryStar
  \/ SolveTryEmpty
  \/ SolveReturn
  \/ ReturnAnalysis

\* the windows of the runs followed to their return
MaxFairDim == 4

FairWindows ==
  {[width |-> w, height |-> h, originRow |-> 0, originCol |-> 0] :
     w \in 1..MaxFairDim, h \in 1..MaxFairDim}

FairBuild ==
  /\ pc = "start"
  /\ \E window \in FairWindows :
       \E regionMap \in {<<>>, AbsRowRegions(window, ScriptBoardSize)} :
         /\ buildInput' = BuildInput(window, ScriptBoardSize, 1, regionMap)
         /\ baseState' = buildWindowBoard(window, ScriptBoardSize, 1, regionMap)
  /\ pc' = "built"
  /\ UNCHANGED <<testState, clueInput, threw, runs>>
  /\ UNCHANGED <<solverVars, minerVars>>

NextFair ==
  \/ FairBuild
  \/ ScriptClues
  \/ ScriptCallEnumerate
  \/ SolveTimeout
  \/ SolveTimedOut
  \/ SolveCapReached
  \/ SolveLeaf
  \/ SolveTryStar
  \/ SolveTryEmpty
  \/ SolveReturn
  \/ ReturnAnalysis

SpecSearchFair == Init /\ [][NextFair]_vars /\ WF_vars(RunsOn)

(* The precondition tests as the mining loop and the schema scripts
   (testE1Patterns, testA1Patterns, testC1Patterns) call them: a Board is
   built for a window of a board from a region map of the family or of the
   script, clues are applied to it, and the test of the family runs on the
   result. *)
MaxTesterDim == 3

TesterFamilies ==
  {A1_rowBand_regionBudget, A2_colBand_regionBudget, C1_bandExactCages,
   C1_band_exactCages, C2_cages_regionQuota, E1_candidateDeficit}

TesterWindows ==
  {[width |-> w, height |-> h, originRow |-> o, originCol |-> o] :
     w \in 1..MaxTesterDim, h \in 1..MaxTesterDim, o \in {0, 1}}

TesterRegionMaps(window, boardSize, familyId) ==
  RegionMaps(window, boardSize)
    \cup Range(generateRegionStructures(window.width, window.height, familyId))

\* the clue lists of the script: cells of the top-left 2x2 block of a window
\* at least two wide
TesterClueLists(state) ==
  {SetToSeq(S) : S \in SUBSET {0, 1, state.windowWidth, state.windowWidth + 1}}

TesterBuild ==
  /\ pc = "start"
  /\ \E familyId \in TesterFamilies, window \in TesterWindows, starsPerUnit \in 0..MaxQuota :
       \E regionMap \in TesterRegionMaps(window, BoardSizeFor(window), familyId) :
         /\ mining' = [NoMining EXCEPT !.familyId = familyId]
         /\ buildInput' = BuildInput(window, BoardSizeFor(window), starsPerUnit, regionMap)
         /\ baseState' = buildWindowBoard(window, BoardSizeFor(window), starsPerUnit, regionMap)
  /\ pc' = "built"
  /\ UNCHANGED <<testState, clueInput, threw, runs, verification, allPatterns>>
  /\ UNCHANGED solverVars

TesterClues ==
  /\ pc = "built"
  /\ \E forcedStars \in {<<>>, <<0>>}, forcedEmpties \in TesterClueLists(baseState) :
       /\ testState' = applyFixedClues(baseState, forcedStars, forcedEmpties)
       /\ threw' = applyFixedCluesThrows(baseState, forcedStars, forcedEmpties)
       /\ clueInput' = [forcedStars |-> forcedStars, forcedEmpties |-> forcedEmpties]
       /\ baseState' = applyFixedCluesInput(baseState, forcedStars, forcedEmpties)
  /\ pc' = "ready"
  /\ UNCHANGED <<buildInput, runs>>
  /\ UNCHANGED <<solverVars, minerVars>>

\* "testSchemaPreconditions(familyId, testState, window)"
TestPreconditions ==
  /\ pc = "ready"
  /\ mining' = [mining EXCEPT !.preconditionTest =
                  testSchemaPreconditions(mining.familyId, testState, buildInput.window)]
  /\ pc' = "tested"
  /\ UNCHANGED <<boardVars, solverVars, runs, verification, allPatterns>>

\* the families with a case of their own in testSchemaPreconditions that the
\* mining loop treats alike
MinedFamilies ==
  {A1_rowBand_regionBudget, A2_colBand_regionBudget, C1_bandExactCages,
   C1_band_exactCages, C2_cages_regionQuota, D1_rowColIntersection}

\* generatePatternsForFamily called with one window size of any shape
MineStartFamilies ==
  MineStartWith(Builds,
                SquareCalls(MinedFamilies, MinedBoardSizes, 0..MaxQuota, {0})
                  \cup ShapeCalls(MinedFamilies, 0..MaxQuota))

\* "const windowSizes = starsPerUnit >= 2 ? [...] : [...]"
AllPatternsSizes(starsPerUnit) ==
  IF starsPerUnit >= 2 THEN << Square(8), Square(9), Square(10) >>
  ELSE << Square(MinedWindowDim), Square(5), Square(6) >>

\* "const windowSizes = [...]" of the two other definitions of generateAllPatterns
FixedPatternsSizes == << Square(MinedWindowDim), Square(5), Square(6) >>

\* generateAllPatterns(boardSize, starsPerUnit, families) at the call of
\* generatePatternsForFamily for one of its families
GenerateAllPatterns ==
  \/ MineStartWith({CurrentBuild},
                   {MineCall(f, b, q, AllPatternsSizes(q), 0) :
                      f \in MinedFamilies, b \in MinedBoardSizes, q \in 0..MaxQuota})
  \/ MineStartWith({CompiledBuild, EarlierBuild},
                   {MineCall(f, b, q, FixedPatternsSizes, 0) :
                      f \in MinedFamilies, b \in MinedBoardSizes, q \in 0..MaxQuota})

NextTesters ==
  \/ TesterBuild
  \/ TesterClues
  \/ TestPreconditions
  \/ MineStartFamilies
  \/ GenerateAllPatterns
  \/ MineSize
  \/ MineStructure
  \/ MineConfigsDone
  \/ MineConfigSkipped
  \/ MineConfigVerified
  \/ MineConfigRecorded
  \/ MineFinish

SpecTesters == Init /\ [][NextTesters]_vars

-----------------------------------------------------------------------------
(* Reference definitions, independent of the solver *)

Abs(x) == IF x < 0 THEN -x ELSE x

\* 8-adjacency in the window's own geometry: cell id = row * width + col
WindowAdjacent(a, b, width) ==
  /\ a # b
  /\ Abs((a \div width) - (b \div width)) <= 1
  /\ Abs((a % width) - (b % width)) <= 1

StarsIn(cells, f) == Cardinality({k \in 1..Len(cells) : f[cells[k]] = Star})

\* f is a full assignment of the board's cells that meets every quota exactly
\* and has no two adjacent stars
SatisfiesBoard(f, board) ==
  /\ \A k \in 1..Len(board.rows) : StarsIn(board.rows[k].cells, f) = board.rows[k].starsRequired
  /\ \A k \in 1..Len(board.cols) : StarsIn(board.cols[k].cells, f) = board.cols[k].starsRequired
  /\ \A k \in 1..Len(board.regions) :
       StarsIn(board.regions[k].cells, f) = board.regions[k].starsRequired
  /\ LET stars == {i \in DOMAIN f : f[i] = Star}
     IN \A a \in stars, b \in stars : ~WindowAdjacent(a, b, board.windowWidth)

Extends(f, board) ==
  \A i \in DOMAIN board.cellStates :
    board.cellStates[i] # Unknown => f[i] = board.cellStates[i]

\* the ways to put starsPerLine stars in one window row, no two side by side
RowPicks(board) ==
  {T \in SUBSET (0..(board.windowWidth - 1)) :
     /\ Cardinality(T) = board.starsPerLine
     /\ \A a \in T, b \in T : a # b => Abs(a - b) > 1}

\* the ways to fill the first r window rows so that no star touches a star of
\* the row above and no column holds more than starsPerLine stars
RECURSIVE RowWisePlacements(_, _)
RowWisePlacements(board, r) ==
  IF r = 0 THEN {<<>>}
  ELSE LET fits == {pt \in RowWisePlacements(board, r - 1) \X RowPicks(board) :
                      /\ r = 1 \/ \A a \in pt[1][r - 1], b \in pt[2] : Abs(a - b) > 1
                      /\ \A b \in pt[2] :
                           Cardinality({k \in 1..(r - 1) : b \in pt[1][k]})
                             < board.starsPerLine}
       IN {Append(pt[1], pt[2]) : pt \in fits}

\* Brute force over the window rows. No valid completion is missed: each
\* window row and each window column is a group of the board with quota
\* starsPerLine, and stars in one row or in consecutive rows whose columns
\* differ by at most one are adjacent. The filter below checks every group
\* and every pair again.
RowWiseAssignments(board) ==
  LET w == board.windowWidth
  IN {[i \in DOMAIN board.cellStates |->
         IF (i % w) \in p[(i \div w) + 1] THEN Star ELSE Empty] :
        p \in RowWisePlacements(board, board.windowHeight)}

BruteForceCompletions(board) ==
  {f \in RowWiseAssignments(board) : Extends(f, board) /\ SatisfiesBoard(f, board)}

LastRun == runs[Len(runs)]
Truncated(run) == run.cut # {}
BoardCells == DOMAIN testState.cellStates

-----------------------------------------------------------------------------
(* C1: every completion the enumerator records meets each row, column and
   region quota exactly and has no two Marked cells that are 8-adjacent in
   the window's own geometry. *)
C1_RecordedCompletionsValid ==
  \A k \in 1..Len(recorded) :
    /\ DOMAIN recorded[k] = BoardCells
    /\ \A i \in BoardCells : recorded[k][i] \in {Star, Empty}
    /\ SatisfiesBoard(recorded[k], testState)

\* a completion with two Marked cells has been recorded
C1_Witness ==
  \E k \in 1..Len(recorded) :
    Cardinality({i \in BoardCells : recorded[k][i] = Star}) >= 2

(* C2 as stated: after a search that was not truncated (cap above the true
   number of completions, timeout not triggered), a cell classified
   alwaysStar / alwaysEmpty has that value in every brute-force completion
   and a cell classified variable takes both values among them. *)
NotTruncatedRun(run, all) ==
  /\ ~("timeout" \in run.cut)
  /\ run.maxCompletions > Cardinality(all)

AlwaysSound(run, all) ==
  \A i \in BoardCells :
    /\ run.analysis.cellResults[i] = "alwaysStar" => \A f \in all : f[i] = Star
    /\ run.analysis.cellResults[i] = "alwaysEmpty" => \A f \in all : f[i] = Empty

VariableTakesBoth(run, all) ==
  \A i \in BoardCells :
    run.analysis.cellResults[i] = "variable" =>
      /\ \E f \in all : f[i] = Star
      /\ \E f \in all : f[i] = Empty

C2_Original ==
  (pc = "ready" /\ Len(runs) > 0) =>
    LET all == BruteForceCompletions(testState)
    IN NotTruncatedRun(LastRun, all) =>
         AlwaysSound(LastRun, all) /\ VariableTakesBoth(LastRun, all)

(* C2 amended: the same, except that a cell classified variable takes both
   values only when the board has at least one completion; with none, every
   cell is classified variable. *)
C2_ClassificationSound ==
  (pc = "ready" /\ Len(runs) > 0) =>
    LET all == BruteForceCompletions(testState)
    IN NotTruncatedRun(LastRun, all) =>
         /\ AlwaysSound(LastRun, all)
         /\ all # {} => VariableTakesBoth(LastRun, all)
         /\ all = {} => \A i \in BoardCells : LastRun.analysis.cellResults[i] = "variable"

\* a run that was not cut short has recorded at least two completions and has
\* classified one cell variable and another alwaysEmpty
C2_Witness ==
  /\ pc = "ready" /\ Len(runs) > 0
  /\ LastRun.cut = {}
  /\ LastRun.analysis.totalCompletions >= 2
  /\ \E i \in BoardCells : LastRun.analysis.cellResults[i] = "variable"
  /\ \E i \in BoardCells : LastRun.analysis.cellResults[i] = "alwaysEmpty"

(* C5: at every point of the search and in every returned result, the number
   of recorded completions is at most the cap. *)
C5_CountWithinCap ==
  /\ pc = "solving" => completionCount <= maxCompletions
  /\ \A k \in 1..Len(runs) : runs[k].analysis.totalCompletions <= runs[k].maxCompletions

\* the cap has been reached and has cut the search short
C5_Witness ==
  /\ pc = "solving"
  /\ maxCompletions >= 1
  /\ completionCount = maxCompletions
  /\ "cap" \in cut

(* C6 as stated: from the returned result and the cap it passed the caller
   can tell a truncated search from an exhaustive one; so two calls on the
   same Board with the same cap that return the same result are either both
   truncated or both exhaustive. *)
C6_Original ==
  (Len(runs) = 2 /\ runs[1].caller = "direct" /\ runs[2].caller = "direct") =>
    (runs[1].analysis = runs[2].analysis => (Truncated(runs[1]) <=> Truncated(runs[2])))

(* C7 as stated: a board write with a cell index outside [0, width*height)
   fails fast with an error; applyFixedClues given an out-of-range clue cell
   signals an error. *)
C7_Original ==
  (pc = "ready" /\ \E c \in Range(clueInput.forcedStars) \cup Range(clueInput.forcedEmpties) :
                     ~(c \in DOMAIN baseState.cellStates))
    => threw

(* C8: two runs on the same Board with the same maxCompletions, neither cut
   by the timeout, return the same totalCompletions and the same
   classification of every cell. *)
C8_Deterministic ==
  (/\ Len(runs) = 2
   /\ runs[1].caller = "direct" /\ runs[2].caller = "direct"
   /\ runs[1].maxCompletions = runs[2].maxCompletions
   /\ ~("timeout" \in runs[1].cut) /\ ~("timeout" \in runs[2].cut))
    => /\ runs[1].analysis.totalCompletions = runs[2].analysis.totalCompletions
       /\ runs[1].analysis.cellResults = runs[2].analysis.cellResults

\* two runs without timeout have finished, each recording two completions
C8_Witness ==
  /\ Len(runs) = 2
  /\ ~("timeout" \in runs[1].cut) /\ ~("timeout" \in runs[2].cut)
  /\ runs[2].analysis.totalCompletions >= 2
  /\ runs[1].analysis.totalCompletions >= 2

-----------------------------------------------------------------------------
(* Claims about the mining pipeline *)

DeducedValue(d) == IF d.type = "forceStar" THEN Star ELSE Empty

\* the positions of a mining run between two steps: in the loops, suspended
\* at "await verifyPattern(...)", or returned
InLoops == pc \in {"mine_config", "mine_e1", "mine_structure", "mine_done"}
AtAwait == pc \in {"mine_config_await", "mine_e1_await"}

\* verifyPattern has returned for the current configuration
Verified == (InLoops \/ AtAwait) /\ verification.called

\* the iteration of the current configuration has resumed and run to its end
Recorded == InLoops /\ verification.called

\* the current configuration has produced a Pattern
Accepted == Recorded /\ mining.accepted

(* C3 as stated: every deduction of a Pattern the pipeline accepts is forced
   on the clue-injected Board: each listed cell has the deduced value in every
   valid completion of that Board. *)
C3_Original ==
  Accepted =>
    \A k \in 1..Len(verification.actualDeductions) :
      LET d == verification.actualDeductions[k]
      IN \A j \in 1..Len(d.relativeCellIds) :
           \A f \in BruteForceCompletions(testState) : f[d.relativeCellIds[j]] = DeducedValue(d)

(* C4: whenever enumerateAllCompletions returns totalCompletions = 0, every
   cell is classified variable; the pipeline creates no Pattern from such a
   Board: after a solvability check with no completion verifyPattern is not
   called, and a verifyPattern whose search records no completion returns
   verified = false with no deductions and no Pattern is pushed. *)
C4_NoCompletionNoPattern ==
  /\ \A k \in 1..Len(runs) :
       runs[k].analysis.totalCompletions = 0 =>
         /\ \A i \in DOMAIN runs[k].analysis.cellResults :
              runs[k].analysis.cellResults[i] = "variable"
         /\ runs[k].caller = "solvabilityCheck" =>
              /\ Len(runs) = 1
              /\ ~verification.called
              /\ ~mining.accepted
         /\ (runs[k].caller = "verifyPattern" /\ verification.called) =>
              /\ ~verification.verified
              /\ verification.actualDeductions = <<>>
              /\ ~mining.accepted

\* the solvability check found a completion, but the search of verifyPattern
\* recorded none before it was cut, and the configuration loop has moved on
C4_Witness ==
  /\ Verified
  /\ Len(runs) = 2
  /\ runs[1].analysis.totalCompletions = 1
  /\ runs[2].analysis.totalCompletions = 0
  /\ testState.size >= 4

(* C10: verifyPattern returns verified = true iff its search recorded at
   least one completion and at least one cell index below
   window.width * window.height is classified alwaysStar or alwaysEmpty; its
   deductions are then one forceStar entry with all alwaysStar window cells
   and/or one forceEmpty entry with all alwaysEmpty window cells, so an
   accepted Pattern has at least one deduction, every type is forceStar or
   forceEmpty and every cell id lies in 0 .. width * height - 1. *)
WindowSize == testState.windowWidth * testState.windowHeight

WindowCellsOfKind(analysis, kind) ==
  {i \in 0..(WindowSize - 1) :
     i \in DOMAIN analysis.cellResults /\ analysis.cellResults[i] = kind}

C10_VerifiedIffForcedWindowCell ==
  Verified =>
    LET analysis == LastRun.analysis
        stars == WindowCellsOfKind(analysis, "alwaysStar")
        empties == WindowCellsOfKind(analysis, "alwaysEmpty")
        ds == verification.actualDeductions
    IN /\ verification.verified <=>
            (analysis.totalCompletions >= 1 /\ stars \cup empties # {})
       /\ verification.verified =>
            /\ Len(ds) >= 1
            /\ \A k \in 1..Len(ds) :
                 /\ ds[k].type \in {"forceStar", "forceEmpty"}
                 /\ Range(ds[k].relativeCellIds) =
                      (IF ds[k].type = "forceStar" THEN stars ELSE empties)
                 /\ Len(ds[k].relativeCellIds) = Cardinality(Range(ds[k].relativeCellIds))
                 /\ Range(ds[k].relativeCellIds) # {}
                 /\ Range(ds[k].relativeCellIds) \subseteq 0..(WindowSize - 1)
            /\ \A k \in 1..Len(ds), l \in 1..Len(ds) : ds[k].type = ds[l].type => k = l
            /\ stars # {} => \E k \in 1..Len(ds) : ds[k].type = "forceStar"
            /\ empties # {} => \E k \in 1..Len(ds) : ds[k].type = "forceEmpty"
       /\ AtAwait => ~mining.accepted
       /\ Recorded => (mining.accepted <=> verification.verified)
       /\ mining.accepted =>
            allPatterns[Len(allPatterns)].deductions = verification.actualDeductions

\* verifyPattern has verified a configuration of a board of size 4 or more
\* with a forceStar and a forceEmpty deduction, found by a search that was
\* not cut short, and the Pattern has been pushed
C10_Witness ==
  /\ Accepted
  /\ Len(verification.actualDeductions) = 2
  /\ LastRun.cut = {}
  /\ testState.size >= 4
  /\ Len(allPatterns) >= 1

-----------------------------------------------------------------------------
(* Claims about the pattern key *)

\* the multiset of the elements of a sequence: element -> number of occurrences
BagOf(s) == [x \in Range(s) |-> Cardinality({k \in 1..Len(s) : s[k] = x})]

\* the deductions of a pattern, disregarding the order of the deduction list
\* and the order of each deduction's cell ids
DeductionsUpToOrder(p) ==
  BagOf([k \in 1..Len(p.deductions) |->
           [type |-> p.deductions[k].type,
            cells |-> BagOf(p.deductions[k].relativeCellIds)]])

SameUpToOrder(p, q) ==
  /\ p.windowWidth = q.windowWidth
  /\ p.windowHeight = q.windowHeight
  /\ p.familyId = q.familyId
  /\ DeductionsUpToOrder(p) = DeductionsUpToOrder(q)

\* C9: two patterns get the same key exactly when they have the same width,
\* height and family id and the same deductions up to the order of the
\* deduction list and of each deduction's cell ids; id and data play no role.
C9_KeyEqualIffSameUpToOrder ==
  pc = "dedup_done" =>
    ((mining.patternKeys[1] = mining.patternKeys[2])
       <=> SameUpToOrder(allPatterns[1], allPatterns[2]))

\* two patterns with different ids whose deduction lists and cell lists are
\* ordered differently got the same key, and the second was dropped
C9_Witness ==
  /\ pc = "dedup_done"
  /\ mining.patternKeys[1] = mining.patternKeys[2]
  /\ allPatterns[1].id # allPatterns[2].id
  /\ Len(allPatterns[1].deductions) = 2
  /\ allPatterns[1].deductions[1] # allPatterns[2].deductions[1]
  /\ \E k \in 1..2 : allPatterns[1].deductions[k].relativeCellIds = <<10, 2>>
  /\ Len(mining.uniquePatterns) = 1

-----------------------------------------------------------------------------
(* Claims about the scenarios *)

\* the 2x2 window whose single region is the whole window, one star per unit,
\* no clue
ScenarioA(board) ==
  /\ board.windowWidth = 2 /\ board.windowHeight = 2
  /\ board.starsPerLine = 1
  /\ Len(board.regions) = 1 /\ Range(board.regions[1].cells) = 0..3
  /\ \A i \in 0..3 : board.cellStates[i] = Unknown

MarkedCells(cellStates) == {i \in DOMAIN cellStates : cellStates[i] = Star}

(* C11 as stated: on the 2x2 window whose single region is the whole window,
   with one star per row and column, a search that is not cut short finds
   exactly 2 completions, with marks at cells {0,3} and {1,2}, and
   classifies every cell variable. *)
C11_Original ==
  (/\ pc = "ready" /\ Len(runs) > 0
   /\ ScenarioA(testState)
   /\ LastRun.cut = {} /\ LastRun.maxCompletions > 2)
    => /\ LastRun.analysis.totalCompletions = 2
       /\ \A i \in 0..3 : LastRun.analysis.cellResults[i] = "variable"
       /\ {MarkedCells(recorded[k]) : k \in 1..Len(recorded)} = {{0, 3}, {1, 2}}

\* the board of a candidate-deficit script: a width x height window with one
\* star per unit whose regions are its rows, the cells of its top row but the
\* last forced Empty and every other cell Unknown
DeficitBoard(board, width, height) ==
  /\ board.size > 0
  /\ board.windowWidth = width /\ board.windowHeight = height
  /\ board.starsPerLine = 1
  /\ Len(board.regions) = height
  /\ \A r \in 1..height :
       /\ board.regions[r].cells = board.rows[r].cells
       /\ board.regions[r].starsRequired = 1
  /\ \A i \in 0..(width * height - 1) :
       board.cellStates[i] = IF i < width - 1 THEN Empty ELSE Unknown

(* C12 as stated: on the 4-wide one-row window whose single region is the
   row, with quota 1 and cells 0, 1, 2 forced Unmarked, the search classifies
   cell 3 alwaysStar; on the 4x3 window of the E1 script, with the cells 0..2
   of row 0 forced Unmarked, the search finds at least one completion and
   classifies cell 3 alwaysStar. *)
C12_Original ==
  (/\ pc = "script_done"
   /\ DeficitBoard(testState, 4, 1) \/ DeficitBoard(testState, 4, 3)
   /\ ~("timeout" \in LastRun.cut))
    => /\ LastRun.analysis.cellResults[3] = "alwaysStar"
       /\ DeficitBoard(testState, 4, 3) => LastRun.analysis.totalCompletions >= 1

-----------------------------------------------------------------------------
(* Claims about the board builder *)

\* a step that calls applyFixedClues(baseState, ...): of a script, or of an
\* iteration of the configuration loop
CallsApplyFixedClues ==
  \/ pc = "built"
  \/ pc = "mine_config" /\ mining.configIdx <= Len(mining.configurations)
  \/ pc = "mine_e1"

ListedCells(clues) == Range(clues.forcedStars) \cup Range(clues.forcedEmpties)

\* a Board built by buildWindowBoard from the recorded arguments is at hand
Built == buildInput # NoBuildInput

\* the absolute cell ids of a given region that lie inside the window
InsideCells(given, in) ==
  {a \in Range(given.cells) :
     /\ (a \div in.boardSize) \in in.window.originRow..(in.window.originRow + in.window.height - 1)
     /\ (a % in.boardSize) \in in.window.originCol..(in.window.originCol + in.window.width - 1)}

RelativeId(a, in) ==
  ((a \div in.boardSize) - in.window.originRow) * in.window.width
    + ((a % in.boardSize) - in.window.originCol)

EmittedAs(given, board) == {g \in Range(board.regions) : g.id = given.id}

(* C17: buildWindowBoard keeps, of each given region, exactly the cells inside
   the window, translated to relative ids, and emits the region iff it has a
   cell inside; the rows and columns are those of the window's dimensions,
   each with the per-unit quota; every cell starts Unknown. *)
C17_WindowBoardShape ==
  Built =>
    LET in == buildInput
        w == in.window.width
        h == in.window.height
    IN /\ \A k \in 1..Len(in.regionMap) :
            /\ EmittedAs(in.regionMap[k], baseState) # {} <=> InsideCells(in.regionMap[k], in) # {}
            /\ \A g \in EmittedAs(in.regionMap[k], baseState) :
                 /\ Range(g.cells) = {RelativeId(a, in) : a \in InsideCells(in.regionMap[k], in)}
                 /\ Len(g.cells) = Cardinality(InsideCells(in.regionMap[k], in))
       /\ in.regionMap # <<>> =>
            \A g \in Range(baseState.regions) :
              \E k \in 1..Len(in.regionMap) : in.regionMap[k].id = g.id
       /\ Len(baseState.rows) = h /\ Len(baseState.cols) = w
       /\ \A r \in 1..h :
            /\ Range(baseState.rows[r].cells) = {i \in 0..(w * h - 1) : i \div w = r - 1}
            /\ baseState.rows[r].starsRequired = in.starsPerUnit
       /\ \A c \in 1..w :
            /\ Range(baseState.cols[c].cells) = {i \in 0..(w * h - 1) : i % w = c - 1}
            /\ baseState.cols[c].starsRequired = in.starsPerUnit
       /\ DOMAIN baseState.cellStates = 0..(w * h - 1)
       /\ \A i \in 0..(w * h - 1) : baseState.cellStates[i] = Unknown

\* a Board built from a region that lies partly inside the window and a
\* region that lies wholly outside
C17_Witness ==
  /\ Built /\ pc = "built"
  /\ \E k \in 1..Len(buildInput.regionMap) :
       /\ InsideCells(buildInput.regionMap[k], buildInput) # {}
       /\ InsideCells(buildInput.regionMap[k], buildInput) # Range(buildInput.regionMap[k].cells)
  /\ \E k \in 1..Len(buildInput.regionMap) :
       /\ buildInput.regionMap[k].cells # <<>>
       /\ InsideCells(buildInput.regionMap[k], buildInput) = {}
  /\ Len(baseState.regions) = 1

RowsSpanned(g, board) == {c \div board.windowWidth : c \in Range(g.cells)}

(* C18: the quota of an emitted region is height * per-unit quota if the
   region covers the whole window, else k * per-unit quota if it spans k > 1
   distinct rows, else the per-unit quota. *)
C18_RegionQuota ==
  Built =>
    \A g \in Range(baseState.regions) :
      g.starsRequired =
        IF Range(g.cells) = DOMAIN baseState.cellStates
          THEN baseState.windowHeight * buildInput.starsPerUnit
          ELSE IF Cardinality(RowsSpanned(g, baseState)) > 1
                 THEN Cardinality(RowsSpanned(g, baseState)) * buildInput.starsPerUnit
                 ELSE buildInput.starsPerUnit

\* a Board with a region that spans two rows without covering the window,
\* next to a region of one row, with a positive per-unit quota
C18_Witness ==
  /\ Built /\ pc = "built" /\ buildInput.starsPerUnit > 0
  /\ \E g \in Range(baseState.regions) :
       /\ Cardinality(RowsSpanned(g, baseState)) = 2
       /\ Range(g.cells) # DOMAIN baseState.cellStates
       /\ g.starsRequired = 2 * buildInput.starsPerUnit
  /\ \E g \in Range(baseState.regions) :
       /\ Cardinality(RowsSpanned(g, baseState)) = 1
       /\ g.starsRequired = buildInput.starsPerUnit

(* C13: applyFixedClues returns a new Board in which the listed cells hold the
   forced values (a cell of the board listed as Unmarked is Unmarked, a cell
   listed as Marked only is Marked), every other cell and every group and
   quota is as in the input; the input Board is as before the call; with
   empty clue sets the result equals the input. *)
C13_FixedCluesFrame ==
  [][CallsApplyFixedClues =>
       /\ DOMAIN testState'.cellStates = DOMAIN baseState.cellStates
       /\ \A i \in DOMAIN baseState.cellStates :
            /\ i \in Range(clueInput'.forcedEmpties) => testState'.cellStates[i] = Empty
            /\ i \in Range(clueInput'.forcedStars) \ Range(clueInput'.forcedEmpties)
                 => testState'.cellStates[i] = Star
            /\ i \notin ListedCells(clueInput') =>
                 testState'.cellStates[i] = baseState.cellStates[i]
       /\ [testState' EXCEPT !.cellStates = baseState.cellStates] = baseState
       /\ baseState' = baseState
       /\ clueInput' = EmptyConfig => testState' = baseState]_vars

\* a call has forced one cell Marked and others Unmarked and left cells Unknown
C13_Witness ==
  /\ pc \in {"mine_config", "mine_structure"}
  /\ testState.size > 0 /\ testState = applyFixedClues(baseState, clueInput.forcedStars, clueInput.forcedEmpties)
  /\ \E i, j, k \in DOMAIN testState.cellStates :
       /\ i \in Range(clueInput.forcedStars) /\ testState.cellStates[i] = Star
       /\ j \in Range(clueInput.forcedEmpties) /\ testState.cellStates[j] = Empty
       /\ k \notin ListedCells(clueInput) /\ testState.cellStates[k] = Unknown

-----------------------------------------------------------------------------
(* Claims about candidate deficit *)

UnknownIn(group, board) ==
  {c \in Range(group.cells) : CellAt(board.cellStates, c) = Unknown}

RemainingQuota(group, board) ==
  group.starsRequired
    - Cardinality({c \in Range(group.cells) : CellAt(board.cellStates, c) = Star})

(* C14: when the search has recorded at least one completion, every Unknown
   cell of a row, column or region that has exactly as many Unknown cells as
   its remaining quota (> 0) is classified alwaysStar; and the 5x5 window
   with one region per row, quota 1 and cells 0..3 forced Unmarked has at
   least one completion and its cell 4 is classified alwaysStar. *)
C14_DeficitForcesStars ==
  pc = "script_done" =>
    /\ LastRun.analysis.totalCompletions >= 1 =>
         \A g \in Range(Groups(testState)) :
           (/\ RemainingQuota(g, testState) > 0
            /\ Cardinality(UnknownIn(g, testState)) = RemainingQuota(g, testState))
             => \A c \in UnknownIn(g, testState) :
                  LastRun.analysis.cellResults[c] = "alwaysStar"
    /\ (DeficitBoard(testState, 5, 5) /\ ~("timeout" \in LastRun.cut)) =>
         /\ LastRun.analysis.totalCompletions >= 1
         /\ LastRun.analysis.cellResults[4] = "alwaysStar"

\* the whole search of the 5x5 deficit board has found its completions and
\* classified cell 4 alwaysStar
C14_Witness ==
  /\ pc = "script_done"
  /\ DeficitBoard(testState, 5, 5)
  /\ LastRun.cut = {}
  /\ LastRun.analysis.totalCompletions >= 2
  /\ LastRun.analysis.cellResults[4] = "alwaysStar"

-----------------------------------------------------------------------------
(* Claims about the mining pipeline *)

\* the identifiers of Families that a case of testSchemaPreconditions names
RegisteredFamilies ==
  {A1_rowBand_regionBudget, A2_colBand_regionBudget, C1_bandExactCages, C1_band_exactCages,
   C2_cages_regionQuota, E1_candidateDeficit, D1_rowColIntersection}

(* C19: enumerateWindows returns exactly one window per origin (r, c) with
   0 <= r <= boardSize - height and 0 <= c <= boardSize - width, each of the
   requested size and inside the board, in row-major order of the origins,
   and none when the width or the height exceeds boardSize. *)
C19_WindowsExact ==
  pc = "windows" =>
    LET ws == mining.windows
        w == mining.width
        h == mining.height
        B == mining.boardSize
    IN /\ \A r \in 0..(B - h), c \in 0..(B - w) :
            Cardinality({k \in 1..Len(ws) : ws[k].originRow = r /\ ws[k].originCol = c}) = 1
       /\ \A k \in 1..Len(ws) :
            /\ ws[k].width = w /\ ws[k].height = h
            /\ ws[k].originRow >= 0 /\ ws[k].originRow + h <= B
            /\ ws[k].originCol >= 0 /\ ws[k].originCol + w <= B
       /\ \A j, k \in 1..Len(ws) :
            j < k => \/ ws[j].originRow < ws[k].originRow
                     \/ /\ ws[j].originRow = ws[k].originRow
                        /\ ws[j].originCol < ws[k].originCol
       /\ (w > B \/ h > B) => ws = <<>>

\* windows of a non-square size in several rows and columns of origins
C19_Witness ==
  /\ pc = "windows"
  /\ mining.width # mining.height
  /\ Len(mining.windows) >= 6
  /\ \E j, k \in 1..Len(mining.windows) :
       /\ mining.windows[j].originRow # mining.windows[k].originRow
       /\ mining.windows[j].originCol # mining.windows[k].originCol

\* the positions of the input at which a key occurs for the first time
FirstOccurrences(keys) == {k \in 1..Len(keys) : \A j \in 1..(k - 1) : keys[j] # keys[k]}

\* the i-th smallest element of a set of numbers
Nth(S, i) == CHOOSE k \in S : Cardinality({j \in S : j < k}) = i - 1

(* C20: deduplicatePatterns returns the patterns that are the first of their
   key, in input order: a subsequence of the input in which no two patterns
   share a key and every key of the input occurs; applied to its own result
   it returns that result unchanged. *)
C20_FirstOfEachKey ==
  /\ pc = "dedup_done" =>
       LET out == mining.uniquePatterns
           first == FirstOccurrences(mining.patternKeys)
       IN /\ Len(out) = Cardinality(first)
          /\ \A i \in 1..Len(out) : out[i] = allPatterns[Nth(first, i)]
          /\ \A i, j \in 1..Len(out) :
               getPatternKey(out[i]) = getPatternKey(out[j]) => i = j
          /\ \A k \in 1..Len(allPatterns) :
               \E i \in 1..Len(out) : getPatternKey(out[i]) = mining.patternKeys[k]
  /\ pc = "dedup_again" => mining.uniquePatterns = allPatterns

\* three patterns of two keys, the first and the third sharing a key without
\* being the same pattern: the result is the first two
C20_Witness ==
  /\ pc = "dedup_done"
  /\ Len(allPatterns) = 3
  /\ mining.patternKeys[1] = mining.patternKeys[3]
  /\ mining.patternKeys[1] # mining.patternKeys[2]
  /\ allPatterns[1] # allPatterns[3]
  /\ mining.uniquePatterns = <<allPatterns[1], allPatterns[2]>>

(* C15 as stated: for an identifier that is not exactly a registered family
   id the pipeline uses the fallback: the precondition holds iff the Board
   has at least one region, and no forced clue configuration is generated. *)
C15_Original ==
  (pc = "mine_config" /\ mining.familyId \notin RegisteredFamilies)
    => /\ mining.preconditionTest.holds <=> Len(baseState.regions) > 0
       /\ \A k \in 1..Len(mining.configurations) :
            mining.configurations[k] = EmptyConfig

(* C16 as stated: the counter patternsFound of accepted patterns of one family
   and window size never exceeds 10, however many windows and region
   structures the loops visit. *)
C16_Original == mining.patternsFound <= PatternsPerSizeCap

-----------------------------------------------------------------------------
(* Claims about the search *)

RecordedSet == {recorded[k] : k \in 1..Len(recorded)}

(* C21: a search that is not truncated (cap above the true count, timeout
   not triggered) records exactly the full assignments that extend the
   Board's pre-set cells and meet every quota without adjacent Marked cells,
   each once, so totalCompletions is the brute-force count. *)
C21_SearchComplete ==
  (pc = "ready" /\ Len(runs) > 0) =>
    LET all == BruteForceCompletions(testState)
    IN NotTruncatedRun(LastRun, all) =>
         /\ RecordedSet = all
         /\ Len(recorded) = Cardinality(all)
         /\ LastRun.analysis.totalCompletions = Cardinality(all)

\* an untruncated search of a 4x4 board with a cell pre-set Unmarked has
\* recorded the one completion, with four Marked cells, that extends it
C21_Witness ==
  /\ pc = "ready" /\ Len(runs) > 0
  /\ LastRun.cut = {} /\ LastRun.maxCompletions > 1
  /\ \E i \in BoardCells : testState.cellStates[i] = Empty
  /\ Len(recorded) = 1
  /\ Cardinality({i \in BoardCells : recorded[1][i] = Star}) = 4

\* f comes before g in the order of the search: at the first cell where they
\* differ f is Marked and g is Unmarked
LexBefore(f, g) ==
  \E i \in DOMAIN f :
    /\ f[i] = Star /\ g[i] = Empty
    /\ \A j \in DOMAIN f : j < i => f[j] = g[j]

\* the first n elements of a set of assignments in that order
FirstInOrder(S, n) == {f \in S : Cardinality({g \in S : LexBefore(g, f)}) < n}

IsPrefix(s, t) == Len(s) <= Len(t) /\ SubSeq(t, 1, Len(s)) = s

(* C22: the completions are recorded in lexicographic order (Marked before
   Unmarked, by ascending cell index); a recorded completion is never
   removed while the search runs; a search with cap K that the timeout did
   not cut has recorded exactly the first min(K, N) of the N valid
   completions in that order, and totalCompletions = min(K, N).  LexBefore
   is transitive, so the order of the whole list is stated on neighbours. *)
C22_RecordedInOrder ==
  [][/\ \A j \in 1..(Len(recorded') - 1) : LexBefore(recorded'[j], recorded'[j + 1])
     /\ (pc = "solving" /\ pc' = "solving") => IsPrefix(recorded, recorded')
     /\ (pc = "solving" /\ pc' = "ready" /\ ~("timeout" \in cut)) =>
          LET all == BruteForceCompletions(testState)
              n == Min({maxCompletions, Cardinality(all)})
          IN /\ recorded' = recorded
             /\ RecordedSet = FirstInOrder(all, n)
             /\ Len(recorded) = n
             /\ runs'[Len(runs')].analysis.totalCompletions = n]_vars

\* a search that was not cut has returned after recording the completions
\* of its board, more than two, one after the other
C22_Witness ==
  /\ pc = "ready" /\ Len(runs) > 0
  /\ LastRun.cut = {}
  /\ Len(recorded) > 2
  /\ LastRun.analysis.totalCompletions = Len(recorded)

\* the lowest Unknown cell of a cell-value array
FirstUnknown(cellStates) ==
  CHOOSE i \in DOMAIN cellStates :
    /\ cellStates[i] = Unknown
    /\ \A j \in DOMAIN cellStates : j < i => cellStates[j] # Unknown

(* C23: enumerateAllCompletions leaves the caller's Board as it was (the
   Board that applyFixedClues returned, which is the argument of the
   outermost call of solve), and every pending call of solve holds the
   cells of its caller with exactly one more cell set: the caller's lowest
   Unknown cell, Marked while the caller is in its first branch and Unmarked
   while it is in its second. *)
C23_BranchesIsolated ==
  pc \in {"solving", "ready"} =>
    /\ testState = applyFixedClues(baseState, clueInput.forcedStars, clueInput.forcedEmpties)
    /\ stack # <<>> => stack[1].cellStates = testState.cellStates
    /\ \A d \in 1..(Len(stack) - 1) :
         /\ stack[d].at \in {"afterStar", "afterEmpty"}
         /\ \E i \in DOMAIN stack[d].cellStates : stack[d].cellStates[i] = Unknown
         /\ stack[d + 1].cellStates =
              [stack[d].cellStates EXCEPT ![FirstUnknown(stack[d].cellStates)] =
                 IF stack[d].at = "afterStar" THEN Star ELSE Empty]

\* a call of solve is pending below callers in their first and in their
\* second branch, on a board with a pre-set cell
C23_Witness ==
  /\ pc = "solving"
  /\ Len(stack) >= 4
  /\ \E d \in 1..(Len(stack) - 1) : stack[d].at = "afterStar"
  /\ \E d \in 1..(Len(stack) - 1) : stack[d].at = "afterEmpty"
  /\ \E i \in BoardCells : testState.cellStates[i] # Unknown

UnknownCount(cellStates) ==
  Cardinality({i \in DOMAIN cellStates : cellStates[i] = Unknown})

(* C24: every call of enumerateAllCompletions returns, also when neither the
   cap nor the timeout triggers; a call of solve at depth d holds a Board
   with d fewer Unknown cells than the input, so the depth never exceeds the
   number of Unknown cells of the input Board. *)
C24_Terminates ==
  /\ [](pc = "solving" =>
          \A d \in 1..Len(stack) :
            /\ UnknownCount(stack[d].cellStates) = UnknownCount(testState.cellStates) - (d - 1)
            /\ d - 1 <= UnknownCount(testState.cellStates))
  /\ (pc = "solving") ~> (pc = "ready" /\ Len(runs) > 0)

\* a search that neither the cap nor the timeout has cut has reached the
\* depth of the number of Unknown cells of its input Board
C24_Witness ==
  /\ pc = "solving"
  /\ Len(stack) - 1 = UnknownCount(testState.cellStates)
  /\ Len(stack) > 4
  /\ cut = {} /\ completionCount < maxCompletions

-----------------------------------------------------------------------------
(* Claims about the precondition tests *)

Tested(familyId) == pc = "tested" /\ mining.familyId = familyId

\* the rows, columns and regions with the kind and the identifier reported
\* for each, in the order rows, columns, regions
TaggedGroups(state) ==
  [k \in 1..Len(state.rows) |->
     [kind |-> "row", id |-> state.rows[k].rowIndex, group |-> state.rows[k]]]
  \o [k \in 1..Len(state.cols) |->
        [kind |-> "column", id |-> state.cols[k].colIndex, group |-> state.cols[k]]]
  \o [k \in 1..Len(state.regions) |->
        [kind |-> "region", id |-> state.regions[k].id, group |-> state.regions[k]]]

HasDeficit(group, board) ==
  /\ RemainingQuota(group, board) > 0
  /\ Cardinality(UnknownIn(group, board)) = RemainingQuota(group, board)

(* C25: testE1Preconditions returns holds=true iff some row, column or region
   has a remaining quota > 0 equal to its number of Unknown cells; the group
   it reports is the first such group in the order rows, columns, regions,
   and the candidates it reports are exactly the Unknown cells of that
   group. *)
C25_E1Preconditions ==
  Tested(E1_candidateDeficit) =>
    LET tagged == TaggedGroups(testState)
        hits == {k \in 1..Len(tagged) : HasDeficit(tagged[k].group, testState)}
        test == mining.preconditionTest
    IN /\ test.holds <=> hits # {}
       /\ test.holds =>
            LET first == tagged[Min(hits)]
            IN /\ test.data.group_type = first.kind
               /\ test.data.group_id = first.id
               /\ Range(test.data.candidates) = UnknownIn(first.group, testState)
               /\ Len(test.data.candidates) = Cardinality(UnknownIn(first.group, testState))

\* the test reports a column although clues are set and stars are placed
C25_Witness ==
  /\ Tested(E1_candidateDeficit)
  /\ mining.preconditionTest.holds
  /\ mining.preconditionTest.data.group_type = "column"
  /\ Len(clueInput.forcedEmpties) > 1
  /\ \E i \in BoardCells : testState.cellStates[i] = Star

-----------------------------------------------------------------------------
(* Claims about the region layouts of the mining loop *)

\* the mining loop has built the Board of a window from the layout with one
\* region per row
MinedRowLayout ==
  /\ Built /\ mining.familyId # <<>>
  /\ (InLoops \/ AtAwait)
  /\ buildInput.regionMap = RowStructure(buildInput.window.width, buildInput.window.height)

AtOrigin(window) == [window EXCEPT !.originRow = 0, !.originCol = 0]

(* C26: for every window the mining loop enumerates, the layout with one
   region per row gives, after buildWindowBoard, exactly `height` regions,
   region r+1 holding exactly the cells of window row r, and the Board does
   not depend on the origin of the window. *)
C26_Original ==
  MinedRowLayout =>
    LET in == buildInput
        w == in.window.width
        h == in.window.height
    IN /\ Len(baseState.regions) = h
       /\ \A r \in 0..(h - 1) :
            /\ baseState.regions[r + 1].id = r + 1
            /\ Range(baseState.regions[r + 1].cells) = {r * w + c : c \in 0..(w - 1)}
       /\ baseState = buildWindowBoard(AtOrigin(in.window), in.boardSize, in.starsPerUnit,
                                       in.regionMap)

-----------------------------------------------------------------------------
(* Claims about windows that are not square *)

NonSquare(board) == board.windowWidth # board.windowHeight

(* C27: on the Board of a window with width # height and per-unit quota >= 1,
   whatever the region map and the clues, enumerateAllCompletions returns
   totalCompletions = 0 and classifies every cell variable. *)
C27_NonSquareUnsolvable ==
  (/\ pc = "ready" /\ Len(runs) > 0
   /\ NonSquare(testState) /\ testState.starsPerLine >= 1) =>
    /\ LastRun.analysis.totalCompletions = 0
    /\ \A i \in DOMAIN LastRun.analysis.cellResults :
         LastRun.analysis.cellResults[i] = "variable"
    /\ recorded = <<>>

\* an uncut search of a window three cells wide and two high, with a cell
\* forced Unmarked, has returned after several calls of solve
C27_Witness ==
  /\ pc = "ready" /\ Len(runs) > 0
  /\ testState.windowWidth = 3 /\ testState.windowHeight = 2
  /\ \E i \in BoardCells : testState.cellStates[i] = Empty
  /\ testState.starsPerLine >= 1
  /\ LastRun.cut = {} /\ LastRun.maxCompletions > 0
  /\ clueInput.forcedEmpties # <<>>
  /\ calls > 2

-----------------------------------------------------------------------------
(* Claims about pre-set cells *)

PresetCells(board) == {i \in DOMAIN board.cellStates : board.cellStates[i] # Unknown}

\* the pre-set cells the loop of verifyPattern looks at
PresetWindowCells(board) ==
  {i \in PresetCells(board) : i < board.windowWidth * board.windowHeight}

Listed(deductions, type) ==
  UNION {Range(deductions[k].relativeCellIds) :
           k \in {j \in 1..Len(deductions) : deductions[j].type = type}}

(* C28: every recorded completion keeps the value of every cell that is
   Marked or Unmarked in the input Board, so a result with at least one
   completion classifies each such cell alwaysStar or alwaysEmpty according
   to its value; and a verifyPattern whose search records a completion on a
   Board with a pre-set window cell returns verified = true with every
   pre-set window cell listed under the deduction of its value. *)
C28_PresetCellsKept ==
  /\ pc \in {"solving", "ready"} =>
       \A k \in 1..Len(recorded) : \A i \in PresetCells(testState) :
         recorded[k][i] = testState.cellStates[i]
  /\ (pc = "ready" /\ Len(runs) > 0 /\ LastRun.analysis.totalCompletions >= 1) =>
       \A i \in PresetCells(testState) :
         LastRun.analysis.cellResults[i] =
           IF testState.cellStates[i] = Star THEN "alwaysStar" ELSE "alwaysEmpty"
  /\ (/\ verification.called
      /\ LastRun.analysis.totalCompletions >= 1
      /\ PresetWindowCells(testState) # {}) =>
       /\ verification.verified
       /\ \A i \in PresetWindowCells(testState) :
            i \in Listed(verification.actualDeductions,
                         IF testState.cellStates[i] = Star THEN "forceStar" ELSE "forceEmpty")

\* the mining loop has verified a Board with an injected clue and a completion
C28_Witness ==
  /\ verification.called /\ verification.verified
  /\ LastRun.caller = "verifyPattern"
  /\ PresetWindowCells(testState) # {}
  /\ PresetWindowCells(testState) \subseteq Listed(verification.actualDeductions, "forceStar")

-----------------------------------------------------------------------------
(* Claims about the families whose precondition never holds *)

Mining(familyId) ==
  /\ mining.familyId = familyId
  /\ (InLoops \/ AtAwait)

(* C29: testA1Preconditions returns holds = false on every Board that
   buildWindowBoard produces, with or without clues, and the mining loop
   accepts no pattern for A1_rowBand_regionBudget. *)
C29_A1NeverHolds ==
  /\ Tested(A1_rowBand_regionBudget) => ~mining.preconditionTest.holds
  /\ Mining(A1_rowBand_regionBudget) =>
       /\ Built => ~testA1Preconditions(baseState, buildInput.window).holds
       /\ pc \in {"mine_structure", "mine_done"}
       /\ allPatterns = <<>> /\ mining.uniquePatterns = <<>>

\* the test has run on a Board of three regions and three rows, built from
\* the mixed layout of the family, with a clue set and candidates left
C29_Witness ==
  /\ Tested(A1_rowBand_regionBudget)
  /\ buildInput.regionMap = MixedStructure(buildInput.window.width, buildInput.window.height)
  /\ Len(testState.regions) = 3 /\ testState.windowHeight = 3
  /\ clueInput.forcedEmpties # <<>>
  /\ \E i \in BoardCells : testState.cellStates[i] = Unknown

AllUnknown(board) == \A i \in DOMAIN board.cellStates : board.cellStates[i] = Unknown

SquareAllUnknown(board) ==
  /\ board.windowWidth = board.windowHeight
  /\ board.starsPerLine >= 1
  /\ AllUnknown(board)

IsCageFamily(familyId) == familyId \in {C1_bandExactCages, C2_cages_regionQuota}

(* C30: on the all-Unknown Board of a square n x n window with per-unit
   quota q >= 1, testC1Preconditions and testC2Preconditions return
   holds = false, the (n-1)^2 blocks with a candidate never being as many as
   the n*q remaining stars; the mining loop tests the precondition on the
   all-Unknown base Board only, which generateAllPatterns builds for square
   windows only, where the test fails for every quota q >= 1; and no mining
   run accepts a pattern for C1_bandExactCages or C2_cages_regionQuota. *)
C30_CagesNeverHold ==
  /\ (/\ pc = "tested" /\ IsCageFamily(mining.familyId)
      /\ SquareAllUnknown(testState)) =>
       /\ ~mining.preconditionTest.holds
       /\ ~testC1Preconditions(testState, buildInput.window).holds
       /\ ~testC2Preconditions(testState, buildInput.window).holds
       /\ testState.windowWidth >= 2 =>
            /\ countValidBlocks(testState, buildInput.window)
                 = (testState.windowWidth - 1) * (testState.windowWidth - 1)
            /\ RemainingStars(testState, buildInput.window)
                 = testState.windowWidth * testState.starsPerLine
  /\ (IsCageFamily(mining.familyId) /\ (InLoops \/ AtAwait)) =>
       /\ allPatterns = <<>> /\ mining.uniquePatterns = <<>>
       /\ Built => AllUnknown(baseState)
       /\ (Built /\ mining.windowSizes = AllPatternsSizes(mining.starsPerUnit)) =>
            baseState.windowWidth = baseState.windowHeight
       /\ (Built /\ SquareAllUnknown(baseState)) =>
            ~testSchemaPreconditions(mining.familyId, baseState, buildInput.window).holds

\* the test of a cage family has run on the all-Unknown Board of a 3x3 window
\* with a quota and several regions
C30_Witness ==
  /\ pc = "tested" /\ IsCageFamily(mining.familyId)
  /\ SquareAllUnknown(testState)
  /\ testState.windowWidth = 3
  /\ Len(testState.regions) = 3

====
